---- MODULE Spec2Model ----
(***************************************************************************)
(* Asynchronous write pipeline of the InfluxDB Go client:                  *)
(*   producers -> bufferCh -> bufferProc (writeBuffer) -> writeCh ->       *)
(*   writeProc -> writeService.handleWrite -> writeBatch -> HTTP server,   *)
(* with the bounded retry queue, and Flush / close on the caller's side.   *)
(* Channels are unbuffered: a send and its receive are one joint step.     *)
(***************************************************************************)
EXTENDS Integers, Sequences, FiniteSets, TLC

\* ---- bounds of the model ------------------------------------------------
MaxLines == 3            \* total number of WriteRecord/WritePoint calls
MaxTime == 4             \* the clock runs 1..MaxTime (seconds)
MaxFailures == 3         \* non-2xx answers the server gives in one run
MaxPushes == 5           \* pushes in the queue-only specification
MaxLimit == 3            \* queue capacities tried in the queue-only specification
MaxArgs == 3             \* arguments of one blocking WriteRecord/WritePoint call
MaxCalls == 2            \* blocking calls in one run
MaxRows == 5             \* rows one query response carries
\* ---- Options (client.go:44), chosen small --------------------------------
BatchSize == 2
RetryBufferLimit == 4
MaxRetries == 2
RetryInterval == 1

\* ---- program constants ---------------------------------------------------
StatusOK == 200
StatusBadRequest == 400
StatusTooManyRequests == 429
StatusServiceUnavailable == 503
StatusNone == 0          \* NewError(err): transport failure, no status code

Producers == {1, 2}
RetryAfterVals == {0, 2}

VARIABLES
  now,               \* time.Now(), in seconds
  calls,             \* calls[p]: number of WriteRecord calls producer p has started
  sending,           \* sending[p]: p is blocked in  w.bufferCh <- line
  late,              \* history: lines whose call started after close() returned
  writeBuffer,       \* writeApiImpl.writeBuffer
  accepted,          \* history: lines received by bufferProc, in order
  bpc,               \* bufferProc position
  bStop,             \* bufferProc is in the flushBuffer of the stop case
  trig,              \* history: a tick, Flush or stop was handled by bufferProc
  wpc,               \* writeProc position
  batch,             \* handleWrite's parameter  batch
  batchToWrite,      \* handleWrite's local  batchToWrite
  retrying,          \* handleWrite's local  retrying
  retryQueue,        \* writeService.retryQueue: [list, limit]
  lastWriteAttempt,  \* writeService.lastWriteAttempt (0 is the zero time)
  hwErr,             \* the error handleWrite returns (NilError: none)
  lastStatus,        \* history: status of the HTTP answer just handled (-1: none)
  sink,              \* history: lines the server received with a 2xx answer
  posts,             \* history: sizes of the batches POSTed, in order
  nFailed,           \* history: number of non-2xx answers so far
  hwPlan,            \* history: batches queued at entry of this handleWrite, then the fresh one
  hwSent,            \* history: batches this handleWrite call has dispatched
  cpc,               \* caller (Flush / close) position
  closing,           \* the caller is inside close()
  racyLens,          \* lengths of writeBuffer the unsynchronised read may observe
  pushLog,           \* history of the queue-only specification: batches pushed
  bcall,             \* blocking API: "idle", "running" or "returned"
  bArgs,             \* blocking API: the last call, [kind, args]
  bResult,           \* blocking API: the error the last call returned
  bSinkAtCall,       \* history: length of sink when the blocking call started
  nCalls,            \* history: number of blocking calls made
  queryResult,       \* the QueryTableResult q: [tablePosition, tableChanged, table, record, err]
  qpc,               \* the caller of Next: "idle", "reading", "done" or "panic"
  parsingState,      \* Next's local  parsingState
  closes,            \* history: calls of q.Close() made by the current call of Next
  consumed,          \* history: what csvReader.Read() has returned so far
  callStart,         \* history: length of consumed when the current call of Next began
  trace,             \* history: what the caller observed after each call of Next
  tvIn,              \* toValue's arguments [s, t]
  tvOut,             \* toValue's results [called, val, err]
  point,             \* the Point m: [measurement, tags, fields, timestamp]
  pcall,             \* history: the last call on the point and what it returned
  options,           \* client.Options(): [BatchSize, RetryBufferLimit]
  ctx,               \* the context of the blocking call: "live" or "cancelled"
  unsent,            \* history: the calls of Write(point) that returned without a send
  other              \* a second thread in handleWrite: [pc, batch, batchToWrite, retrying, err]

vars == <<now, calls, sending, late, writeBuffer, accepted, bpc, bStop, trig,
          wpc, batch, batchToWrite, retrying, retryQueue, lastWriteAttempt,
          hwErr, lastStatus, sink, posts, nFailed, hwPlan, hwSent, cpc,
          closing, racyLens, pushLog, bcall, bArgs, bResult, bSinkAtCall,
          nCalls, queryResult, qpc, parsingState, closes, consumed, callStart, trace,
          tvIn, tvOut, point, pcall, options, other, ctx,
          unsent>>

prodVars == <<calls, sending, late>>
bufVars == <<writeBuffer, accepted, bpc, bStop, trig>>
svcVars == <<batch, batchToWrite, retrying, retryQueue, lastWriteAttempt,
             hwErr, lastStatus, sink, posts, nFailed, hwPlan, hwSent>>
callVars == <<cpc, closing>>
blkVars == <<bcall, bArgs, bResult, bSinkAtCall, nCalls>>
\* the variables of the APIs that are not the asynchronous pipeline
csvVars == <<queryResult, qpc, parsingState, closes, consumed, callStart, trace>>
tvVars == <<tvIn, tvOut>>
ptVars == <<point, pcall>>
optVars == <<options>>
conVars == <<other>>
ctxVars == <<ctx>>
encVars == <<unsent>>
apiVars == <<blkVars, csvVars, tvVars, ptVars, optVars, conVars, ctxVars, encVars>>

\* ---- batch ---------------------------------------------------------------
\* type batch struct { batch string; retryInterval uint; retries uint }
\* lines is the payload (the lines joined by buffer()), isNil tells the nil
\* pointer. History fields: attempts counts the HTTP requests made for the
\* batch; rejectedWith is the status of its last 429/503 answer (0 if it had
\* none), retryAfter the Retry-After of that answer (0 if none was given) and
\* rejectedAt the time the request so answered was sent.
newBatch(lines) ==
  [lines |-> lines, retryInterval |-> 0, retries |-> 0,
   attempts |-> 0, rejectedWith |-> 0, retryAfter |-> 0, rejectedAt |-> 0,
   isNil |-> FALSE]

\* the nil *batch
NoBatch == [newBatch(<<>>) EXCEPT !.isNil = TRUE]

\* ---- Error (client.go:48) ---------------------------------------------------
\* the *Error a call returns; isNil tells the nil pointer, Err = "" the nil Err
\* NewError(err)
NewError(err) ==
  [isNil |-> FALSE, StatusCode |-> 0, Code |-> "", Message |-> "", Err |-> err,
   RetryAfter |-> 0]

NilError == [NewError("") EXCEPT !.isNil = TRUE]

\* an Error that prints its fields the other way round
ErrorStringSwapped(e) ==
  IF e.Err # "" THEN e.Err ELSE e.Message \o ": " \o e.Code

\* func (e *Error) Error() string
ErrorString(e) ==
  IF e.Err # "" THEN e.Err ELSE e.Code \o ": " \o e.Message

\* the bodies of the non-2xx answers: a JSON object with code and message, a
\* body declared application/json that does not decode, and a plain text body
ErrorBodies == {"json", "malformed", "text"}

\* http.Response.Status of a non-2xx answer
StatusText(st) ==
  CASE st = StatusBadRequest -> "400 Bad Request"
    [] st = StatusTooManyRequests -> "429 Too Many Requests"
    [] st = StatusServiceUnavailable -> "503 Service Unavailable"
    [] OTHER -> "000"

\* client.handleHttpError for status st, Retry-After ra and a body of that kind.
\* The defaults for an empty Code and Message need an answer without status
\* text, which net/http does not produce.
handleHttpError(st, ra, body) ==
  LET error == [NewError("") EXCEPT !.StatusCode = st, !.RetryAfter = ra]
  IN  CASE body = "json" -> [error EXCEPT !.Code = "invalid", !.Message = "data"]
        [] body = "malformed" -> [error EXCEPT !.Err = "invalid character"]
        [] OTHER -> [error EXCEPT !.Code = StatusText(st), !.Message = "data"]

\* the *Error of postRequest: NewError(err) when httpDoer.Do fails (no status),
\* handleHttpError(resp) for a status outside 200..299
postRequestError(st, ra, body) ==
  IF st = StatusNone THEN NewError("connection refused")
  ELSE handleHttpError(st, ra, body)

\* ---- flux tables (unnamed/part_015:135) ---------------------------------------
newFluxColumn(index, dataType) ==
  [index |-> index, dataType |-> dataType, name |-> "", group |-> FALSE,
   defaultValue |-> ""]

newFluxTableMetadata(position) ==
  [isNil |-> FALSE, position |-> position, columns |-> <<>>]

\* a nil *FluxTableMetadata
NilTable == [newFluxTableMetadata(0) EXCEPT !.isNil = TRUE]

\* Column(i) # nil, i counted from 0
HasColumn(table, i) ==
  ~(Len(table.columns) = 0 \/ i < 0 \/ i >= Len(table.columns))

SetGroup(column, g) == [column EXCEPT !.group = (g = "true")]
SetDefaultValue(column, c) == [column EXCEPT !.defaultValue = c]
SetName(column, n) == [column EXCEPT !.name = n]

\* the setter a row applies to the columns
SetBy(setter, column, c) ==
  CASE setter = "SetGroup" -> SetGroup(column, c)
    [] setter = "SetDefaultValue" -> SetDefaultValue(column, c)
    [] OTHER -> SetName(column, c)

\* for i, c := range row[1:] { if Column(i) != nil { Column(i).Set...(c) } }
SetColumns(table, cells, setter) ==
  [table EXCEPT !.columns =
     [j \in 1..Len(table.columns) |->
        IF j <= Len(cells) /\ HasColumn(table, j - 1)
        THEN SetBy(setter, table.columns[j], cells[j])
        ELSE table.columns[j]]]

\* AddColumn(newFluxColumn(i, d)) for each cell of the #datatype row
AddColumns(table, cells) ==
  [table EXCEPT !.columns =
     [j \in 1..Len(cells) |-> newFluxColumn(j - 1, cells[j])]]

newFluxRecord(table, values) ==
  [isNil |-> FALSE, table |-> table, values |-> values]

\* a nil *FluxRecord
NilRecord == [isNil |-> TRUE, table |-> 0, values |-> <<>>]

\* ---- values of cells (query.go:29, query.go:329) -------------------------------
stringDatatype == "string"
doubleDatatype == "double"
boolDatatype == "bool"
longDatatype == "long"
uLongDatatype == "unsignedLong"
durationDatatype == "duration"
base64BinaryDataType == "base64Binary"
timeDatatypeRFC == "dateTime:RFC3339"
timeDatatypeRFCNano == "dateTime:RFC3339Nano"

\* a time both layouts accept
TimeCell == "2020-02-17T22:19:49Z"

\* the texts of cells the model reads
Cells == {"", "0", "1", "x", "true", "false", "FALSE", "False", TimeCell}

\* the names of data types a #datatype row of the model may carry: the nine
\* of query.go:29, the name the annotated CSV of the server uses for booleans,
\* and a name no dialect has
DataTypes == {stringDatatype, doubleDatatype, boolDatatype, longDatatype,
              uLongDatatype, durationDatatype, base64BinaryDataType,
              timeDatatypeRFC, timeDatatypeRFCNano, "boolean", "other"}

\* error values: nil, or an error with its text
NoErr == [isNil |-> TRUE, msg |-> ""]
errorsNew(msg) == [isNil |-> FALSE, msg |-> msg]

\* interface{} values: one record shape for all dynamic types
NilValue == [kind |-> "nil", s |-> "", n |-> 0, b |-> FALSE]
StringValue(s) == [NilValue EXCEPT !.kind = "string", !.s = s]
NumValue(kind, n) == [NilValue EXCEPT !.kind = kind, !.n = n]
BoolValue(b) == [NilValue EXCEPT !.kind = "bool", !.b = b]
TimeValue(s) == [NilValue EXCEPT !.kind = "time", !.s = s]
BytesValue(s) == [NilValue EXCEPT !.kind = "bytes", !.s = s]

\* the decimal numbers among Cells
Digits == {"0", "1"}
DigitValue(s) == IF s = "1" THEN 1 ELSE 0

\* strconv.ParseInt / ParseUint / ParseFloat on Cells
strconvParse(fn, kind, s) ==
  IF s \in Digits
  THEN [val |-> NumValue(kind, DigitValue(s)), err |-> NoErr]
  ELSE [val |-> NumValue(kind, 0),
        err |-> errorsNew("strconv." \o fn \o ": parsing \"" \o s \o "\": invalid syntax")]

\* time.Parse on Cells
timeParse(layout, s) ==
  IF s = TimeCell
  THEN [val |-> TimeValue(s), err |-> NoErr]
  ELSE [val |-> TimeValue(""),
        err |-> errorsNew("parsing time \"" \o s \o "\" as \"" \o layout
                          \o "\": cannot parse \"" \o s \o "\" as \"2006\"")]

\* time.ParseDuration on Cells
ParseDuration(s) ==
  CASE s = "0" -> [val |-> NumValue("duration", 0), err |-> NoErr]
    [] s = "1" -> [val |-> NumValue("duration", 0),
                   err |-> errorsNew("time: missing unit in duration \"" \o s \o "\"")]
    [] OTHER -> [val |-> NumValue("duration", 0),
                 err |-> errorsNew("time: invalid duration \"" \o s \o "\"")]

\* base64.StdEncoding.DecodeString on Cells: the decoded bytes are named by
\* their encoding
DecodeString(s) ==
  CASE s \in {"", "true"} -> [val |-> BytesValue(s), err |-> NoErr]
    [] s \in {"0", "1", "x"} ->
         [val |-> BytesValue(""), err |-> errorsNew("illegal base64 data at input byte 0")]
    [] OTHER ->
         [val |-> BytesValue(""), err |-> errorsNew("illegal base64 data at input byte 4")]

\* strings.ToLower on Cells
ToLower(s) == IF s \in {"FALSE", "False"} THEN "false" ELSE s

\* case boolDatatype of toValue
boolOf(s) == [val |-> BoolValue(ToLower(s) # "false"), err |-> NoErr]

stringTernary(a, b) == IF a = "" THEN b ELSE a

toValue(s, t) ==
  CASE t = stringDatatype -> [val |-> StringValue(s), err |-> NoErr]
    [] t = timeDatatypeRFC -> timeParse("2006-01-02T15:04:05Z07:00", s)
    [] t = timeDatatypeRFCNano -> timeParse("2006-01-02T15:04:05.999999999Z07:00", s)
    [] t = durationDatatype -> ParseDuration(s)
    [] t = doubleDatatype -> strconvParse("ParseFloat", "double", s)
    [] t = boolDatatype -> boolOf(s)
    [] t = longDatatype -> strconvParse("ParseInt", "long", s)
    [] t = uLongDatatype -> strconvParse("ParseUint", "unsignedLong", s)
    [] t = base64BinaryDataType -> DecodeString(s)
    [] OTHER -> [val |-> NilValue,
                 err |-> errorsNew(s \o " has unknown data type " \o t)]

\* toValue has not been called
NoResult == [called |-> FALSE, val |-> NilValue, err |-> NoErr]

InitToValue ==
  /\ tvIn = [s |-> "", t |-> stringDatatype]
  /\ tvOut = NoResult

\* ---- QueryTableResult (query.go:162) --------------------------------------------
parsingStateNormal == "normal"
parsingStateNameRow == "nameRow"
parsingStateError == "error"

\* &QueryTableResult{Closer: resp.Body, csvReader: csvReader}  (query.go:130)
newQueryTableResult ==
  [tablePosition |-> 0, tableChanged |-> FALSE, table |-> NilTable,
   record |-> NilRecord, err |-> NoErr]

TablePosition(qq) ==
  IF qq.tablePosition > 0 THEN qq.tablePosition - 1 ELSE qq.tablePosition

\* what csvReader.Read() returns: a row, io.EOF, or another error; after
\* "errClose" the Close of the body reports an error too
ReadRowOf(cells) == [kind |-> "row", cells |-> cells]
ReadEOF == [kind |-> "eof", cells |-> <<>>]
ReadErr == [kind |-> "err", cells |-> <<>>]
ReadErrClose == [kind |-> "errClose", cells |-> <<>>]

\* the rows of the model
Rows == {
  <<"#datatype", "string">>,
  <<"#datatype", "string", "long">>,
  <<"#group", "true", "false">>,
  <<"#default", "d", "">>,
  <<"", "a", "b">>,
  <<"", "error", "reference">>,
  <<"", "v">>,
  <<"", "v", "1">>,
  <<"", "", "1">>,
  <<"", "v", "">>,
  <<"x">>,
  <<"x", "y">> }

\* the values of a data row, column by column: values[name], q.err = toValue(...)
cellValue(table, cells, i) ==
  toValue(stringTernary(cells[i], table.columns[i].defaultValue),
          table.columns[i].dataType)

\* the first column whose cell does not convert, 0 if all convert
firstBadCell(table, cells) ==
  LET bad == {i \in 1..Len(cells) : ~cellValue(table, cells, i).err.isNil}
  IN IF bad = {} THEN 0 ELSE CHOOSE i \in bad : \A j \in bad : i <= j

\* the map: a later column overwrites an earlier one of the same name
valuesOf(table, cells) ==
  LET names == {table.columns[i].name : i \in 1..Len(cells)}
      last(n) == CHOOSE i \in 1..Len(cells) :
                   /\ table.columns[i].name = n
                   /\ \A j \in 1..Len(cells) : table.columns[j].name = n => j <= i
  IN [n \in names |-> cellValue(table, cells, last(n)).val]

\* one pass through the body of Next from the label readRow, after Read has
\* returned a row: the new q, the new parsingState, and how the pass ends
\* ("readRow": goto readRow; "true" / "false": return; "panic": nil dereference)
Pass(qq, ps, out) == [q |-> qq, ps |-> ps, out |-> out]

\* a mutated check: the row is compared with one column fewer
differentNumberOffByOne(row, table) == Len(row) - 1 # Len(table.columns) - 1

\* len(row)-1 != len(q.table.Columns())
differentNumber(row, table) == Len(row) - 1 # Len(table.columns)

dataRow(qq, ps, row) ==
  LET cells == Tail(row)
  IN IF qq.table.isNil
     THEN Pass([qq EXCEPT !.err = errorsNew("parsing error, table definition not found")],
               ps, "false")
     ELSE IF differentNumber(row, qq.table)
     THEN Pass([qq EXCEPT !.err = errorsNew(
                   "parsing error, row has different number of columns than table: "
                   \o ToString(Len(row) - 1) \o " vs "
                   \o ToString(Len(qq.table.columns)))],
               ps, "false")
     ELSE IF firstBadCell(qq.table, cells) # 0
     THEN Pass([qq EXCEPT !.err =
                   cellValue(qq.table, cells, firstBadCell(qq.table, cells)).err],
               ps, "false")
     ELSE Pass([qq EXCEPT !.record =
                   newFluxRecord(qq.table.position, valuesOf(qq.table, cells))],
               ps, "true")

errorRow(qq, ps, row) ==
  LET message == IF Len(row) > 1 THEN row[2] ELSE "unknown query error"
      reference == IF Len(row) > 2 /\ Len(row[3]) > 0 THEN "," \o row[3] ELSE ""
  IN Pass([qq EXCEPT !.err = errorsNew(message \o reference)], ps, "false")

nameRow(qq, ps, row) ==
  IF row[2] = "error"
  THEN Pass(qq, parsingStateError, "readRow")
  ELSE IF qq.table.isNil
  THEN Pass(qq, ps, "panic")
  ELSE Pass([qq EXCEPT !.table = SetColumns(qq.table, Tail(row), "SetName")],
            parsingStateNormal, "readRow")

datatypeRow(qq, ps, row) ==
  Pass([qq EXCEPT !.table = AddColumns(newFluxTableMetadata(qq.tablePosition), Tail(row)),
                  !.tablePosition = qq.tablePosition + 1,
                  !.tableChanged = TRUE],
       ps, "readRow")

groupRow(qq, ps, row) ==
  IF qq.table.isNil
  THEN Pass(qq, ps, "panic")
  ELSE Pass([qq EXCEPT !.table = SetColumns(qq.table, Tail(row), "SetGroup")],
            ps, "readRow")

defaultRow(qq, ps, row) ==
  IF qq.table.isNil
  THEN Pass(qq, ps, "panic")
  ELSE Pass([qq EXCEPT !.table = SetColumns(qq.table, Tail(row), "SetDefaultValue")],
            parsingStateNameRow, "readRow")

processRow(qq, ps, row) ==
  IF Len(row) <= 1
  THEN Pass(qq, ps, "readRow")
  ELSE CASE row[1] = "" ->
              IF ps = parsingStateError THEN errorRow(qq, ps, row)
              ELSE IF ps = parsingStateNameRow THEN nameRow(qq, ps, row)
              ELSE dataRow(qq, ps, row)
         [] row[1] = "#datatype" -> datatypeRow(qq, ps, row)
         [] row[1] = "#group" -> groupRow(qq, ps, row)
         [] row[1] = "#default" -> defaultRow(qq, ps, row)
         [] OTHER -> Pass(qq, ps, "true")

\* a mutated end of stream: io.EOF is left in q.err
atEOFKeepsErr(qq) == [qq EXCEPT !.err = errorsNew("EOF")]

\* if q.err == io.EOF { q.err = nil; return false }
atEOF(qq) == [qq EXCEPT !.err = NoErr]

\* row, q.err = q.csvReader.Read() and what follows it
afterRead(qq, ps, ev) ==
  CASE ev.kind = "eof" -> Pass(atEOF(qq), ps, "false")
    [] ev.kind \in {"err", "errClose"} ->
         Pass([qq EXCEPT !.err = errorsNew("read error")], ps, "false")
    [] OTHER -> processRow([qq EXCEPT !.err = NoErr], ps, ev.cells)

\* a mutated closer: the body is closed whatever Next returns
closesAlways(out) == 1

\* the calls of q.Close() the deferred closer makes: closer is replaced by an
\* empty function before  return true
closesOf(out) == IF out = "true" THEN 0 ELSE 1

\* the deferred closer, after the pass that ended the call
closer(qq, ev, out) ==
  IF closesOf(out) = 1 /\ ev.kind = "errClose"
  THEN [qq EXCEPT !.err = errorsNew(IF qq.err.isNil THEN "close error"
                                    ELSE "close error" \o "," \o qq.err.msg)]
  ELSE qq

\* what the caller can observe after a call of Next
observed(qq, out, n) ==
  [ret |-> out, tablePosition |-> TablePosition(qq), tableChanged |-> qq.tableChanged,
   table |-> qq.table, record |-> qq.record, err |-> qq.err, closes |-> n]

InitQueryResult ==
  /\ queryResult = newQueryTableResult
  /\ qpc = "idle"
  /\ parsingState = parsingStateNormal
  /\ closes = 0
  /\ consumed = <<>>
  /\ callStart = 0
  /\ trace = <<>>

\* ---- sequences ------------------------------------------------------------------
Range(s) == {s[i] : i \in 1..Len(s)}

RECURSIVE Flatten(_)
Flatten(ss) == IF ss = <<>> THEN <<>> ELSE Head(ss) \o Flatten(Tail(ss))

\* ---- texts: a Go string is the sequence of its characters -----------------------
Digit10 == <<"0", "1", "2", "3", "4", "5", "6", "7", "8", "9">>

RECURSIVE digitsOf(_)
digitsOf(n) ==
  IF n < 10 THEN <<Digit10[n + 1]>>
  ELSE Append(digitsOf(n \div 10), Digit10[(n % 10) + 1])

\* strconv.FormatInt(n, 10)
FormatInt(n) == IF n < 0 THEN <<"-">> \o digitsOf(0 - n) ELSE digitsOf(n)

\* Go's integer division truncates toward zero
goDiv(a, b) == IF a >= 0 THEN a \div b ELSE 0 - ((0 - a) \div b)

\* the byte values of the characters the model uses, for the order of keys
CharCode(c) ==
  CASE c = " " -> 32 [] c = "\"" -> 34 [] c = "," -> 44 [] c = "=" -> 61
    [] c = "\\" -> 92 [] c = "a" -> 97 [] c = "b" -> 98 [] c = "f" -> 102
    [] c = "m" -> 109 [] c = "t" -> 116 [] c = "v" -> 118 [] OTHER -> 120

\* a < b for Go strings
RECURSIVE StringLess(_, _)
StringLess(a, b) ==
  IF b = <<>> THEN FALSE
  ELSE IF a = <<>> THEN TRUE
  ELSE IF Head(a) # Head(b) THEN CharCode(Head(a)) < CharCode(Head(b))
  ELSE StringLess(Tail(a), Tail(b))

\* ---- Point (point.go:14) ----------------------------------------------------------
\* field values carry their dynamic type: n for the numbers and booleans,
\* text for strings, byte slices, floats (their %v text), times (their
\* RFC3339Nano text) and values of a type convertField does not know
Value(type, n, text) == [type |-> type, n |-> n, text |-> text]

\* time.Date(2020, time.March, 20, 10, 30, 23, 0, time.UTC): Format(time.RFC3339Nano)
TimeRFC3339Nano ==
  <<"2", "0", "2", "0", "-", "0", "3", "-", "2", "0", "T",
    "1", "0", ":", "3", "0", ":", "2", "3", "Z">>

\* the same time under %v (Time.String)
TimeString ==
  <<"2", "0", "2", "0", "-", "0", "3", "-", "2", "0", " ",
    "1", "0", ":", "3", "0", ":", "2", "3", " ",
    "+", "0", "0", "0", "0", " ", "U", "T", "C">>

\* the values the callers pass to AddField and NewPoint
FieldValues == {
  Value("int", 5, <<>>),
  Value("uint8", 7, <<>>),
  Value("float32", 0, <<"1", ".", "5">>),
  Value("string", 0, <<"a", " ", "\"", "\\">>),
  Value("[]byte", 0, <<"a", "b">>),
  Value("struct", 0, <<>>) }

\* convertField's types
SignedTypes == {"int", "int32", "int16", "int8"}
UnsignedTypes == {"uint", "uint32", "uint16", "uint8"}
KeptTypes == {"bool", "int64", "string", "float64", "uint64"}

\* convertField panics: "unsupported type"
Unsupported(v) ==
  v.type \notin KeptTypes \cup SignedTypes \cup UnsignedTypes
               \cup {"[]byte", "float32", "time.Time", "time.Duration"}

convertField(v) ==
  CASE v.type \in KeptTypes -> v
    [] v.type \in SignedTypes -> Value("int64", v.n, <<>>)
    [] v.type \in UnsignedTypes -> Value("uint64", v.n, <<>>)
    [] v.type = "[]byte" -> Value("string", 0, v.text)
    [] v.type = "float32" -> Value("float64", 0, v.text)
    [] v.type = "time.Time" -> Value("string", 0, v.text)
    [] v.type = "time.Duration" -> Value("string", 0, v.text)
    [] OTHER -> Value("panic", 0, <<>>)

\* the keys and tag values of the model
Measurement == <<"m", " ", "x">>
TagKeys == {<<"t">>, <<"a", "=", "b">>}
TagValues == {<<"a", " ", "b">>, <<"v", "\\">>}
FieldKeys == {<<"f">>, <<"a", ",", "b">>}

\* timestamps: [isZero, unix, nsec] with UnixNano = unix * 10^9 + nsec
Billion == 1000000000
ZeroTime == [isZero |-> TRUE, unix |-> 0, nsec |-> 0]
timeUnix(sec, nsec) == [isZero |-> FALSE, unix |-> sec, nsec |-> nsec]
Times == {ZeroTime, timeUnix(2, 123456789), timeUnix(0 - 2, 500000000)}
Unix(t) == t.unix
UnixNano(t) == t.unix * Billion + t.nsec

\* &Point{measurement: measurement}
NewPointWithMeasurement(measurement) ==
  [measurement |-> measurement, tags |-> <<>>, fields |-> <<>>,
   timestamp |-> ZeroTime]

\* a mutated AddTag: the tag is appended whatever the keys present
AddTagAppends(tags, k, v) == Append(tags, [Key |-> k, Value |-> v])

\* AddTag on m.tags
AddTag(tags, k, v) ==
  IF \E i \in 1..Len(tags) : tags[i].Key = k
  THEN LET i == CHOOSE i \in 1..Len(tags) :
                  tags[i].Key = k /\ \A j \in 1..(i - 1) : tags[j].Key # k
       IN [tags EXCEPT ![i].Value = v]
  ELSE Append(tags, [Key |-> k, Value |-> v])

\* AddField on m.fields: an existing key takes v as it is, a new key takes
\* convertField(v)
AddField(fields, k, v) ==
  IF \E i \in 1..Len(fields) : fields[i].Key = k
  THEN LET i == CHOOSE i \in 1..Len(fields) :
                  fields[i].Key = k /\ \A j \in 1..(i - 1) : fields[j].Key # k
       IN [fields EXCEPT ![i].Value = v]
  ELSE Append(fields, [Key |-> k, Value |-> convertField(v)])

\* sort.Slice(s, func(i, j) { return s[i].Key < s[j].Key }): any order of s
\* that is sorted by key (entries of equal keys may come in any order)
SortedByKey(s) ==
  {t \in [1..Len(s) -> Range(s)] :
     /\ \A e \in Range(s) :
          Cardinality({i \in 1..Len(s) : s[i] = e}) = Cardinality({i \in 1..Len(t) : t[i] = e})
     /\ \A i \in 1..(Len(t) - 1) : ~StringLess(t[i + 1].Key, t[i].Key)}

\* the entries of a map, in the order the range loop happens to visit them
EntriesOf(map) ==
  {s \in [1..Cardinality(DOMAIN map) -> {[Key |-> k, Value |-> map[k]] : k \in DOMAIN map}] :
     \A i, j \in 1..Cardinality(DOMAIN map) : i # j => s[i] # s[j]}

\* the maps the callers pass to NewPoint
MapsOf(keys, values) == UNION {[ks -> values] : ks \in SUBSET keys}

\* escapeKey / escapeValue
escapeRunes(s, special) ==
  Flatten([i \in 1..Len(s) |-> IF s[i] \in special THEN <<"\\", s[i]>> ELSE <<s[i]>>])

escapeKey(key) == escapeRunes(key, {" ", ",", "="})
escapeValue(value) == escapeRunes(value, {"\\", "\""})

\* fmt.Sprintf("%v", f.Value) for the types that are not string
Sprintv(v) ==
  CASE v.type = "bool" -> IF v.n = 0 THEN <<"f", "a", "l", "s", "e">> ELSE <<"t", "r", "u", "e">>
    [] v.type \in {"int64", "uint64"} \cup SignedTypes \cup UnsignedTypes -> FormatInt(v.n)
    [] v.type = "[]byte" ->
         <<"[">> \o
         Flatten([i \in 1..Len(v.text) |->
                    (IF i > 1 THEN <<" ">> ELSE <<>>) \o FormatInt(CharCode(v.text[i]))])
         \o <<"]">>
    [] v.type = "time.Time" -> TimeString
    [] OTHER -> v.text

\* one field of the line: key, "=", the value, the suffix of its type
fieldText(f) ==
  escapeKey(f.Key) \o <<"=">>
  \o (IF f.Value.type = "string"
      THEN <<"\"">> \o escapeValue(f.Value.text) \o <<"\"">>
      ELSE Sprintv(f.Value))
  \o (CASE f.Value.type = "int64" -> <<"i">>
        [] f.Value.type = "uint64" -> <<"u">>
        [] OTHER -> <<>>)

tagText(t) == escapeKey(t.Key) \o <<"=">> \o escapeKey(t.Value)

\* the elements of texts with "," between them
RECURSIVE commaJoined(_)
commaJoined(texts) ==
  IF texts = <<>> THEN <<>>
  ELSE IF Len(texts) = 1 THEN texts[1]
  ELSE texts[1] \o <<",">> \o commaJoined(Tail(texts))

\* the names of the time.Duration values passed as precision
Precisions == {"Nanosecond", "Microsecond", "Millisecond", "Second", "Hour"}

\* a mutated scaling: seconds by division of the nanoseconds
timestampTextDivides(t, precision) ==
  CASE precision = "Microsecond" -> FormatInt(goDiv(UnixNano(t), 1000))
    [] precision = "Millisecond" -> FormatInt(goDiv(UnixNano(t), 1000000))
    [] precision = "Second" -> FormatInt(goDiv(UnixNano(t), Billion))
    [] OTHER -> FormatInt(UnixNano(t))

\* switch precision { ... }
timestampText(t, precision) ==
  CASE precision = "Microsecond" -> FormatInt(goDiv(UnixNano(t), 1000))
    [] precision = "Millisecond" -> FormatInt(goDiv(UnixNano(t), 1000000))
    [] precision = "Second" -> FormatInt(Unix(t))
    [] OTHER -> FormatInt(UnixNano(t))

\* what ToLineProtocolBuffer writes, part by part
headText(m) ==
  escapeKey(m.measurement) \o <<",">>
  \o commaJoined([i \in 1..Len(m.tags) |-> tagText(m.tags[i])])

fieldsText(m) == commaJoined([i \in 1..Len(m.fields) |-> fieldText(m.fields[i])])

tailText(m, precision) ==
  IF ~m.timestamp.isZero THEN <<" ">> \o timestampText(m.timestamp, precision) ELSE <<>>

ToLineProtocol(m, precision) ==
  headText(m) \o <<" ">> \o fieldsText(m) \o tailText(m, precision) \o <<"\n">>

\* no call on the point yet
NoCall == [op |-> "none", k |-> <<>>, v |-> Value("none", 0, <<>>),
           precision |-> "", line |-> <<>>, panicked |-> FALSE]

InitPoint ==
  /\ point = NewPointWithMeasurement(Measurement)
  /\ pcall = NoCall

\* ---- queue ---------------------------------------------------------------
newQueue(limit) == [list |-> <<>>, limit |-> limit]

isEmpty(q) == Len(q.list) = 0

first(q) == Head(q.list)

\* a pop that leaves the front element in the list
poppedNothing(q) == q

\* pop removes the front element, if any
popped(q) == IF Len(q.list) > 0 THEN [q EXCEPT !.list = Tail(q.list)] ELSE q

\* a push that checks for overflow one element too late
pushLate(q, b) ==
  LET q1 == IF Len(q.list) > q.limit THEN popped(q) ELSE q
  IN  [q1 EXCEPT !.list = Append(q1.list, b)]

\* push: when the list is full the oldest element is dropped first
push(q, b) ==
  LET q1 == IF Len(q.list) = q.limit THEN popped(q) ELSE q
  IN  [q1 EXCEPT !.list = Append(q1.list, b)]

\* the Options of the runs with one configuration
DefaultOptions == [BatchSize |-> BatchSize, RetryBufferLimit |-> RetryBufferLimit]

\* newWriteService: retryBufferLimit := RetryBufferLimit / BatchSize, 0 -> 1
retryBufferLimitOf(o) ==
  IF o.RetryBufferLimit \div o.BatchSize = 0 THEN 1
  ELSE o.RetryBufferLimit \div o.BatchSize

retryBufferLimit == retryBufferLimitOf(DefaultOptions)

\* a second thread that is not in handleWrite
NoOther == [pc |-> "idle", batch |-> NoBatch, batchToWrite |-> NoBatch,
            retrying |-> FALSE, err |-> NilError]

\* ---- initial state: newWriteApiImpl ---------------------------------------
InitWith(o) ==
  /\ now = 1
  /\ calls = [p \in Producers |-> 0]
  /\ sending = [p \in Producers |-> FALSE]
  /\ late = {}
  /\ writeBuffer = <<>>
  /\ accepted = <<>>
  /\ bpc = "select"
  /\ bStop = FALSE
  /\ trig = FALSE
  /\ wpc = "select"
  /\ batch = NoBatch
  /\ batchToWrite = NoBatch
  /\ retrying = FALSE
  /\ retryQueue = newQueue(retryBufferLimitOf(o))
  /\ lastWriteAttempt = 0
  /\ hwErr = NilError
  /\ lastStatus = -1
  /\ sink = <<>>
  /\ posts = <<>>
  /\ nFailed = 0
  /\ hwPlan = <<>>
  /\ hwSent = <<>>
  /\ cpc = "idle"
  /\ closing = FALSE
  /\ racyLens = {}
  /\ pushLog = <<>>
  /\ bcall = "idle"
  /\ bArgs = [kind |-> "none", args |-> <<>>]
  /\ bResult = NilError
  /\ bSinkAtCall = 0
  /\ nCalls = 0
  /\ InitQueryResult
  /\ InitToValue
  /\ InitPoint
  /\ options = o
  /\ other = NoOther
  /\ ctx = "live"
  /\ unsent = {}

Init == InitWith(DefaultOptions)

\* ---- the clock ------------------------------------------------------------
Tick ==
  /\ now < MaxTime
  /\ now' = now + 1
  /\ UNCHANGED <<prodVars, bufVars, wpc, svcVars, callVars, racyLens, pushLog, apiVars>>

\* ---- producers: WriteRecord / Write ---------------------------------------
TotalCalls == calls[1] + calls[2]

\* the line producer p is sending (or sent last)
Line(p) == <<p, calls[p]>>

\* a WriteRecord that returns at once when the client has been closed
WriteRecordUnlessClosed(p) ==
  /\ ~sending[p]
  /\ TotalCalls < MaxLines
  /\ calls' = [calls EXCEPT ![p] = @ + 1]
  /\ sending' = [sending EXCEPT ![p] = cpc # "returned"]
  /\ late' = IF cpc = "returned" THEN late \cup {<<p, calls[p] + 1>>} ELSE late
  /\ UNCHANGED <<now, bufVars, wpc, svcVars, callVars, racyLens, pushLog, apiVars>>

\* WriteRecord(line): b := append([]byte(line), '\n'); w.bufferCh <- string(b)
\* The call starts here and stays blocked in the send until bufferProc receives.
WriteRecord(p) ==
  /\ ~sending[p]
  /\ TotalCalls < MaxLines
  /\ calls' = [calls EXCEPT ![p] = @ + 1]
  /\ sending' = [sending EXCEPT ![p] = TRUE]
  /\ late' = IF cpc = "returned" THEN late \cup {<<p, calls[p] + 1>>} ELSE late
  /\ UNCHANGED <<now, bufVars, wpc, svcVars, callVars, racyLens, pushLog, apiVars>>

\* ---- bufferProc -----------------------------------------------------------
\* a flush that sends whatever the buffer holds
flushBufferAlways(buf, after) == "flush"

\* flushBuffer: with a non-empty buffer the worker blocks in  w.writeCh <- batch
flushBuffer(buf, after) == IF Len(buf) > 0 THEN "flush" ELSE after

\* a buffer that counts as full one line too late
bufferFullLate(buf) == Len(buf) = options.BatchSize + 1

\* a buffer that counts as full with its first line
bufferFullEarly(buf) == Len(buf) >= 1

\* len(w.writeBuffer) == int(BatchSize)
bufferFull(buf) == Len(buf) = options.BatchSize

\* what the unsynchronised  len(w.writeBuffer)  of waitForFlushing may read
raced(buf) == IF cpc = "wait" THEN racyLens \cup {Len(buf)} ELSE racyLens

\* case line := <-w.bufferCh
BufferRecv(p) ==
  /\ bpc = "select"
  /\ sending[p]
  /\ sending' = [sending EXCEPT ![p] = FALSE]
  /\ writeBuffer' = Append(writeBuffer, Line(p))
  /\ accepted' = Append(accepted, Line(p))
  /\ bpc' = IF bufferFull(writeBuffer') THEN flushBuffer(writeBuffer', "select")
            ELSE "select"
  /\ racyLens' = raced(writeBuffer')
  /\ UNCHANGED <<now, calls, late, bStop, trig, wpc, svcVars, callVars, pushLog, apiVars>>

\* case <-ticker.C
TickerFlush ==
  /\ bpc = "select"
  /\ trig' = TRUE
  /\ bpc' = flushBuffer(writeBuffer, "select")
  /\ UNCHANGED <<now, prodVars, writeBuffer, accepted, bStop, wpc, svcVars,
                 callVars, racyLens, pushLog, apiVars>>

\* case <-w.bufferFlush, together with Flush's  w.bufferFlush <- 1
RecvFlush ==
  /\ bpc = "select"
  /\ cpc = "flushSend"
  /\ trig' = TRUE
  /\ bpc' = flushBuffer(writeBuffer, "select")
  /\ cpc' = "wait"
  /\ racyLens' = {Len(writeBuffer)}
  /\ UNCHANGED <<now, prodVars, writeBuffer, accepted, bStop, wpc, svcVars,
                 closing, pushLog, apiVars>>

\* case <-w.bufferStop, together with close's  w.bufferStop <- 1
RecvStop ==
  /\ bpc = "select"
  /\ cpc = "stopSend"
  /\ trig' = TRUE
  /\ bStop' = TRUE
  /\ bpc' = flushBuffer(writeBuffer, "done")
  /\ cpc' = "recvDone1"
  /\ UNCHANGED <<now, prodVars, writeBuffer, accepted, wpc, svcVars, closing, racyLens, pushLog, apiVars>>

\* a flush that joins the buffer without its first line
flushedBatchTail(buf) == newBatch(Tail(buf))

\* the batch flushBuffer builds:  &batch{batch: buffer(w.writeBuffer)}
flushedBatch(buf) == newBatch(buf)

\* history: the payloads queued when handleWrite is entered, then the fresh one
planOf(q, b) == [i \in 1..Len(q.list) |-> q.list[i].lines] \o <<b.lines>>

\* w.writeCh <- batch in flushBuffer, together with writeProc's
\* case batch := <-w.writeCh; then  w.writeBuffer = w.writeBuffer[:0]
\* The writer enters handleWrite: batchToWrite := batch; retrying := false
SendBatch ==
  /\ bpc = "flush"
  /\ wpc = "select"
  /\ batch' = flushedBatch(writeBuffer)
  /\ batchToWrite' = batch'
  /\ retrying' = FALSE
  /\ hwPlan' = planOf(retryQueue, batch')
  /\ hwSent' = <<>>
  /\ writeBuffer' = <<>>
  /\ racyLens' = raced(writeBuffer')
  /\ bpc' = IF bStop THEN "done" ELSE "select"
  /\ wpc' = "loop"
  /\ UNCHANGED <<now, prodVars, accepted, bStop, trig, retryQueue,
                 lastWriteAttempt, hwErr, lastStatus, sink, posts, nFailed,
                 callVars, pushLog, apiVars>>

\* ---- writeService.handleWrite ----------------------------------------------
\* the contexts a caller passes: one that is live and one that is cancelled
Contexts == {"live", "cancelled"}

\* a select that never finds the context done
ctxDoneNever(c) == FALSE

\* select { case <-ctx.Done(): ...; default: }: the case is taken when the
\* context is done
ctxDone(c) == c = "cancelled"

\* ctx.Err() of a cancelled context
ContextCanceled == NewError("context canceled")

\* a check that never finds the retry interval elapsed
canWriteOnlyAtFirst(last, interval, t) == last = 0

\* a check that never makes the writer wait
canWriteAlways(last, interval, t) == TRUE

\* a check that lets the writer go at the instant the interval ends
canWriteFromInstant(last, interval, t) == last = 0 \/ t >= last + interval

\* w.lastWriteAttempt.IsZero() ||
\*   time.Now().After(w.lastWriteAttempt.Add(time.Second * b.retryInterval))
canWrite(last, interval, t) == last = 0 \/ t > last + interval

\* One pass of handleWrite's for loop, up to the request writeBatch dispatches
\* (w.lastWriteAttempt = time.Now(); postRequest) or to the return of nil.
\* The async writer's context is never cancelled, so the select on ctx.Done()
\* always takes its default branch.
HandleWriteLoop ==
  /\ wpc = "loop"
  /\ ~ctxDone(ctx)
  /\ LET q0 == retryQueue
         enter == ~isEmpty(q0)
         ok == canWrite(lastWriteAttempt, first(q0).retryInterval, now)
         \* if !retrying { ... }
         declined == enter /\ ~retrying /\ ~ok
         retrying1 == IF enter /\ ~retrying THEN ok ELSE retrying
         q1 == IF declined THEN push(q0, batch) ELSE q0
         btw1 == IF declined THEN NoBatch ELSE batchToWrite
         \* if retrying { ... }
         doRetry == enter /\ retrying1
         btw2 == IF doRetry THEN [first(q1) EXCEPT !.retries = @ + 1] ELSE btw1
         q2 == IF doRetry THEN popped(q1) ELSE q1
         q3 == IF doRetry /\ ~batch.isNil THEN push(q2, batch) ELSE q2
         batch3 == IF doRetry THEN NoBatch ELSE batch
     IN  /\ retrying' = retrying1
         /\ lastStatus' = -1
         /\ retryQueue' = q3
         /\ batch' = batch3
         /\ IF ~btw2.isNil
            THEN \* writeBatch: the request is sent
                 /\ batchToWrite' = [btw2 EXCEPT !.attempts = @ + 1]
                 /\ lastWriteAttempt' = now
                 /\ posts' = Append(posts, Len(btw2.lines))
                 /\ hwSent' = Append(hwSent, btw2.lines)
                 /\ wpc' = "post"
                 /\ hwErr' = hwErr
            ELSE \* break; return nil
                 /\ batchToWrite' = NoBatch
                 /\ wpc' = "return"
                 /\ hwErr' = NilError
                 /\ UNCHANGED <<lastWriteAttempt, posts, hwSent>>
  /\ UNCHANGED <<now, prodVars, bufVars, sink, nFailed, hwPlan, callVars,
                 racyLens, pushLog, apiVars>>

\* ---- writeService.writeBatch: the answer of postRequest ---------------------
Statuses == {StatusOK, StatusBadRequest, StatusTooManyRequests,
             StatusServiceUnavailable, StatusNone}

\* every failure taken as one to retry
retryableAny(st) == st # StatusOK

\* error.StatusCode == 429 || error.StatusCode == 503
retryable(st) == st = StatusTooManyRequests \/ st = StatusServiceUnavailable

\* an interval that is the configured one whatever the answer says
nextRetryIntervalConfigured(ra) == RetryInterval

\* if error.RetryAfter > 0 { RetryAfter } else { Options().RetryInterval }
nextRetryInterval(ra) == IF ra > 0 THEN ra ELSE RetryInterval

\* a retry limit that lets a batch through once more
mayRequeueOnceMore(b) == b.retries <= MaxRetries

\* if batch.retries < Options().MaxRetries { w.retryQueue.push(batch) }
mayRequeue(b) == b.retries < MaxRetries

\* the retry queue after writeBatch got an error with status st, Retry-After ra
queueAfterError(q, b, st, ra, t) ==
  IF retryable(st)
  THEN LET b1 == [b EXCEPT !.retryInterval = nextRetryInterval(ra),
                           !.rejectedWith = st, !.retryAfter = ra,
                           !.rejectedAt = t]
       IN  IF mayRequeue(b1) THEN push(q, b1) ELSE q
  ELSE q

\* postRequest returns: nil on 2xx, an *Error otherwise
HttpResponse ==
  /\ wpc = "post"
  /\ \E st \in Statuses, ra \in RetryAfterVals, body \in ErrorBodies :
       \* the server sends Retry-After with 429 and 503 only
       /\ st \notin {StatusTooManyRequests, StatusServiceUnavailable} => ra = 0
       \* no body is looked at without a status or with 2xx
       /\ st \in {StatusOK, StatusNone} => body = "text"
       /\ lastStatus' = st
       /\ IF st = StatusOK
          THEN \* w.lastWriteAttempt = time.Now(); return nil; next pass of the loop
               /\ lastWriteAttempt' = now
               /\ sink' = sink \o batchToWrite.lines
               /\ wpc' = "loop"
               /\ UNCHANGED <<retryQueue, hwErr, nFailed>>
          ELSE \* return error, which handleWrite returns to its caller
               /\ nFailed < MaxFailures
               /\ nFailed' = nFailed + 1
               /\ retryQueue' = queueAfterError(retryQueue, batchToWrite, st, ra,
                                                lastWriteAttempt)
               /\ wpc' = "return"
               /\ hwErr' = postRequestError(st, ra, body)
               /\ UNCHANGED <<lastWriteAttempt, sink>>
  /\ batchToWrite' = NoBatch
  /\ UNCHANGED <<now, prodVars, bufVars, batch, retrying, posts, hwPlan, hwSent,
                 callVars, racyLens, pushLog, apiVars>>

\* ---- writeProc ---------------------------------------------------------------
\* a writer that hands an error to a channel nobody reads from
afterHandleWriteReports(err) == IF err.isNil THEN "select" ELSE "report"

\* a writer that goes through handleWrite's loop again with no new batch
afterHandleWriteAgain(err) == "loop"

\* w.service.handleWrite(batch): the result is not used, the for loop goes
\* back to its select
afterHandleWrite(err) == "select"

\* case batch := <-w.writeCh: w.service.handleWrite(batch)
\* handleWrite has returned; writeProc drops the result and selects again.
\* The history of the call ends with it.
HandleWriteReturn ==
  /\ wpc = "return"
  /\ wpc' = afterHandleWrite(hwErr)
  /\ hwErr' = NilError
  /\ lastStatus' = -1
  /\ hwPlan' = <<>>
  /\ hwSent' = <<>>
  /\ UNCHANGED <<now, prodVars, bufVars, batch, batchToWrite, retrying, retryQueue,
                 lastWriteAttempt, sink, posts, nFailed, callVars, racyLens, pushLog, apiVars>>

\* ---- writeProc: stop --------------------------------------------------------
\* case <-w.writeStop, together with close's  w.writeStop <- 1
RecvWriteStop ==
  /\ wpc = "select"
  /\ cpc = "writeStopSend"
  /\ wpc' = "done"
  /\ cpc' = "recvDone2"
  /\ UNCHANGED <<now, prodVars, bufVars, svcVars, closing, racyLens, pushLog, apiVars>>

\* ---- doneCh -----------------------------------------------------------------
\* a close that returns after the first completion signal
afterDoneOnce(c) == "returned"

\* close continues after  <-w.doneCh :
\* first: close(bufferStop); close(bufferFlush); w.writeStop <- 1
\* second: close(w.writeCh); return
afterDone(c) == IF c = "recvDone1" THEN "writeStopSend" ELSE "returned"

\* a buffer worker that signals completion and goes on selecting
BufferDoneKeepsRunning ==
  /\ bpc = "done"
  /\ cpc \in {"recvDone1", "recvDone2"}
  /\ bpc' = "select"
  /\ cpc' = afterDone(cpc)
  /\ UNCHANGED <<now, prodVars, writeBuffer, accepted, bStop, trig, wpc, svcVars,
                 closing, racyLens, pushLog, apiVars>>

\* bufferProc's  w.doneCh <- 1  with close's  <-w.doneCh
BufferDone ==
  /\ bpc = "done"
  /\ cpc \in {"recvDone1", "recvDone2"}
  /\ bpc' = "exited"
  /\ cpc' = afterDone(cpc)
  /\ UNCHANGED <<now, prodVars, writeBuffer, accepted, bStop, trig, wpc, svcVars,
                 closing, racyLens, pushLog, apiVars>>

\* writeProc's  w.doneCh <- 1  with close's  <-w.doneCh
WriterDone ==
  /\ wpc = "done"
  /\ cpc \in {"recvDone1", "recvDone2"}
  /\ wpc' = "exited"
  /\ cpc' = afterDone(cpc)
  /\ UNCHANGED <<now, prodVars, bufVars, svcVars, closing, racyLens, pushLog, apiVars>>

\* ---- the caller: Flush and close ----------------------------------------------
\* Flush(): w.bufferFlush <- 1 (RecvFlush), then waitForFlushing()
CallFlush ==
  /\ cpc = "idle"
  /\ cpc' = "flushSend"
  /\ UNCHANGED <<now, prodVars, bufVars, wpc, svcVars, closing, racyLens, pushLog, apiVars>>

\* close(): w.Flush() first
CallClose ==
  /\ cpc = "idle"
  /\ closing' = TRUE
  /\ cpc' = "flushSend"
  /\ UNCHANGED <<now, prodVars, bufVars, wpc, svcVars, racyLens, pushLog, apiVars>>

\* waitForFlushing: for len(w.writeBuffer) > 0 { sleep }: the read is not
\* synchronised with bufferProc, so it sees any length the buffer had since the
\* Flush signal; for len(w.writeCh) > 0 { sleep }: writeCh is unbuffered, its
\* len is always 0; then one more sleep, and Flush returns.
waitForFlushing ==
  /\ cpc = "wait"
  /\ 0 \in racyLens
  /\ cpc' = IF closing THEN "stopSend" ELSE "idle"
  /\ racyLens' = {}
  /\ UNCHANGED <<now, prodVars, bufVars, wpc, svcVars, closing, pushLog, apiVars>>

\* ---- the pipeline's specification ------------------------------------------------
Next ==
  \/ Tick
  \/ \E p \in Producers : WriteRecord(p)
  \/ \E p \in Producers : BufferRecv(p)
  \/ TickerFlush
  \/ RecvFlush
  \/ RecvStop
  \/ SendBatch
  \/ HandleWriteLoop
  \/ HttpResponse
  \/ HandleWriteReturn
  \/ RecvWriteStop
  \/ BufferDone
  \/ WriterDone
  \/ CallFlush
  \/ CallClose
  \/ waitForFlushing

Spec == Init /\ [][Next]_vars

\* the running pipeline under fair scheduling: a goroutine that can take a step
\* takes one, and every HTTP request is answered. Producers, the ticker, the
\* clock and the caller's decisions to call Flush or close are not forced.
Progress ==
  \/ \E p \in Producers : BufferRecv(p)
  \/ RecvFlush
  \/ RecvStop
  \/ SendBatch
  \/ HandleWriteLoop
  \/ HttpResponse
  \/ HandleWriteReturn
  \/ RecvWriteStop
  \/ BufferDone
  \/ WriterDone
  \/ waitForFlushing

FairSpec == Spec /\ WF_vars(Progress)

\* ---- the retry queue alone: any sequence of pushes -----------------------------
QueueLines == {<<1, 1>>, <<1, 2>>, <<2, 1>>}

InitQueue ==
  /\ now = 1
  /\ calls = [p \in Producers |-> 0]
  /\ sending = [p \in Producers |-> FALSE]
  /\ late = {}
  /\ writeBuffer = <<>>
  /\ accepted = <<>>
  /\ bpc = "select"
  /\ bStop = FALSE
  /\ trig = FALSE
  /\ wpc = "select"
  /\ batch = NoBatch
  /\ batchToWrite = NoBatch
  /\ retrying = FALSE
  /\ \E k \in 1..MaxLimit : retryQueue = newQueue(k)
  /\ lastWriteAttempt = 0
  /\ hwErr = NilError
  /\ lastStatus = -1
  /\ sink = <<>>
  /\ posts = <<>>
  /\ nFailed = 0
  /\ hwPlan = <<>>
  /\ hwSent = <<>>
  /\ cpc = "idle"
  /\ closing = FALSE
  /\ racyLens = {}
  /\ pushLog = <<>>
  /\ bcall = "idle"
  /\ bArgs = [kind |-> "none", args |-> <<>>]
  /\ bResult = NilError
  /\ bSinkAtCall = 0
  /\ nCalls = 0
  /\ InitQueryResult
  /\ InitToValue
  /\ InitPoint
  /\ options = DefaultOptions
  /\ other = NoOther
  /\ ctx = "live"
  /\ unsent = {}

\* q.push(batch)
QueuePush ==
  /\ Len(pushLog) < MaxPushes
  /\ \E l \in QueueLines :
       /\ retryQueue' = push(retryQueue, newBatch(<<l>>))
       /\ pushLog' = Append(pushLog, newBatch(<<l>>))
  /\ UNCHANGED <<now, prodVars, bufVars, wpc, batch, batchToWrite, retrying,
                 lastWriteAttempt, hwErr, lastStatus, sink, posts, nFailed, hwPlan,
                 hwSent, callVars, racyLens, apiVars>>

NextQueue == QueuePush

SpecQueue == InitQueue /\ [][NextQueue]_vars

\* ---- the blocking API: writeApiBlockingImpl ---------------------------------------
\* the records and points the callers pass; BadPoint is a point the line
\* protocol encoder rejects (FailOnFieldErr)
Lines == {"a", "b"}

BadPoint == "bad"

Points == Lines \cup {BadPoint}

ArgLists(S) == UNION {[1..n -> S] : n \in 0..MaxArgs}

\* a payload built without the line terminators
unterminated(line) == line

\* b := []byte(line); b = append(b, 0xa)
terminated(line) == line \o "\n"

\* WriteRecord's loop over its arguments: what the strings.Builder holds, as
\* the sequence of the terminated lines written to it
recordPayload(args) == [i \in 1..Len(args) |-> terminated(args[i])]

\* encodePoints: the encoder writes each point as a terminated line; the first
\* point it rejects ends the call with the encoder's error
encodeFails(points) == \E i \in 1..Len(points) : points[i] = BadPoint

pointPayload(points) == [i \in 1..Len(points) |-> terminated(points[i])]

\* write: &batch{batch: line, retryInterval: Options().RetryInterval}
blockingBatch(payload) == [newBatch(payload) EXCEPT !.retryInterval = RetryInterval]

InitBlocking ==
  /\ now = 1
  /\ calls = [p \in Producers |-> 0]
  /\ sending = [p \in Producers |-> FALSE]
  /\ late = {}
  /\ writeBuffer = <<>>
  /\ accepted = <<>>
  /\ bpc = "select"
  /\ bStop = FALSE
  /\ trig = FALSE
  /\ wpc = "idle"
  /\ batch = NoBatch
  /\ batchToWrite = NoBatch
  /\ retrying = FALSE
  /\ retryQueue = newQueue(retryBufferLimit)
  /\ lastWriteAttempt = 0
  /\ hwErr = NilError
  /\ lastStatus = -1
  /\ sink = <<>>
  /\ posts = <<>>
  /\ nFailed = 0
  /\ hwPlan = <<>>
  /\ hwSent = <<>>
  /\ cpc = "idle"
  /\ closing = FALSE
  /\ racyLens = {}
  /\ pushLog = <<>>
  /\ bcall = "idle"
  /\ bArgs = [kind |-> "none", args |-> <<>>]
  /\ bResult = NilError
  /\ bSinkAtCall = 0
  /\ nCalls = 0
  /\ InitQueryResult
  /\ InitToValue
  /\ InitPoint
  /\ options = DefaultOptions
  /\ other = NoOther
  /\ ctx = "live"
  /\ unsent = {}

\* w.service.handleWrite(ctx, batch) is entered: batchToWrite := batch;
\* retrying := false
callHandleWrite(b) ==
  /\ batch' = b
  /\ batchToWrite' = b
  /\ retrying' = FALSE
  /\ hwPlan' = planOf(retryQueue, b)
  /\ hwSent' = <<>>
  /\ wpc' = "loop"
  /\ bcall' = "running"
  /\ bResult' = NilError
  /\ UNCHANGED <<retryQueue, lastWriteAttempt, hwErr, lastStatus, sink, posts,
                 nFailed>>

\* the call returns without calling handleWrite
returnAtOnce(err) ==
  /\ bcall' = "returned"
  /\ bResult' = err
  /\ UNCHANGED <<wpc, svcVars>>

\* WriteRecord(ctx, line...)
BlockingWriteRecord ==
  /\ bcall # "running"
  /\ nCalls < MaxCalls
  /\ \E args \in ArgLists(Lines) :
       /\ bArgs' = [kind |-> "record", args |-> args]
       /\ IF Len(args) > 0
          THEN callHandleWrite(blockingBatch(recordPayload(args)))
          ELSE returnAtOnce(NilError)
  /\ ctx' \in Contexts
  /\ nCalls' = nCalls + 1
  /\ bSinkAtCall' = Len(sink)
  /\ UNCHANGED <<now, prodVars, bufVars, callVars, racyLens, pushLog, csvVars,
                 tvVars, ptVars, optVars, conVars,
                 encVars>>

\* WritePoint(ctx, point...)
BlockingWritePoint ==
  /\ bcall # "running"
  /\ nCalls < MaxCalls
  /\ \E points \in ArgLists(Points) :
       /\ bArgs' = [kind |-> "point", args |-> points]
       /\ IF encodeFails(points)
          THEN returnAtOnce(NewError("encoding error"))
          ELSE callHandleWrite(blockingBatch(pointPayload(points)))
  /\ ctx' \in Contexts
  /\ nCalls' = nCalls + 1
  /\ bSinkAtCall' = Len(sink)
  /\ UNCHANGED <<now, prodVars, bufVars, callVars, racyLens, pushLog, csvVars,
                 tvVars, ptVars, optVars, conVars,
                 encVars>>

\* handleWrite has returned: write returns its error to the caller
BlockingReturn ==
  /\ bcall = "running"
  /\ wpc = "return"
  /\ wpc' = "idle"
  /\ bcall' = "returned"
  /\ bResult' = hwErr
  /\ hwErr' = NilError
  /\ lastStatus' = -1
  /\ hwPlan' = <<>>
  /\ hwSent' = <<>>
  /\ UNCHANGED <<now, prodVars, bufVars, batch, batchToWrite, retrying, retryQueue,
                 lastWriteAttempt, sink, posts, nFailed, callVars, racyLens,
                 pushLog, bArgs, bSinkAtCall, nCalls, csvVars, tvVars, ptVars, optVars, conVars, ctxVars,
                 encVars>>

\* the caller's context is cancelled while the call runs
CancelContext ==
  /\ bcall = "running"
  /\ ctx = "live"
  /\ ctx' = "cancelled"
  /\ UNCHANGED <<now, prodVars, bufVars, wpc, svcVars, callVars, racyLens, pushLog,
                 blkVars, csvVars, tvVars, ptVars, optVars, conVars,
                 encVars>>

\* handleWrite at the top of its loop with the context done:
\* case <-ctx.Done(): return ctx.Err()
HandleWriteCancelled ==
  /\ wpc = "loop"
  /\ ctxDone(ctx)
  /\ wpc' = "return"
  /\ hwErr' = ContextCanceled
  /\ lastStatus' = -1
  /\ UNCHANGED <<now, prodVars, bufVars, batch, batchToWrite, retrying, retryQueue,
                 lastWriteAttempt, sink, posts, nFailed, hwPlan, hwSent, callVars,
                 racyLens, pushLog, apiVars>>

NextBlocking ==
  \/ Tick
  \/ BlockingWriteRecord
  \/ BlockingWritePoint
  \/ CancelContext
  \/ HandleWriteCancelled
  \/ HandleWriteLoop
  \/ HttpResponse
  \/ BlockingReturn

SpecBlocking == InitBlocking /\ [][NextBlocking]_vars

\* ---- the query decoder: QueryTableResult.Next (query.go:210) -----------------------
\* what Read may return next: any row of the model while fewer than MaxRows
\* were read, the end of the stream or a read error
NextReads ==
  {ReadRowOf(cells) : cells \in IF Len(consumed) < MaxRows THEN Rows ELSE {}}
  \cup {ReadEOF, ReadErr, ReadErrClose}

\* a mutated entry of Next: the flag of the previous call is kept
enterNextKeepsFlag(qq) == qq

\* q.tableChanged = false
enterNext(qq) == [qq EXCEPT !.tableChanged = FALSE]

\* the caller calls Next: the statements before the label readRow
CallNext ==
  /\ qpc = "idle"
  /\ qpc' = "reading"
  /\ parsingState' = parsingStateNormal
  /\ queryResult' = enterNext(queryResult)
  /\ closes' = 0
  /\ callStart' = Len(consumed)
  /\ UNCHANGED <<consumed, trace>>
  /\ UNCHANGED <<now, prodVars, bufVars, wpc, svcVars, callVars, racyLens, pushLog,
                 blkVars, tvVars, ptVars, optVars, conVars, ctxVars,
                 encVars>>

\* one Read and the pass through the body that follows it; a pass that ends
\* the call runs the deferred closer and hands the result to the caller
ReadRow ==
  /\ qpc = "reading"
  /\ \E ev \in NextReads :
       LET pass == afterRead(queryResult, parsingState, ev)
       IN /\ consumed' = Append(consumed, ev)
          /\ parsingState' = pass.ps
          /\ IF pass.out = "readRow"
             THEN /\ queryResult' = pass.q
                  /\ qpc' = "reading"
                  /\ UNCHANGED <<closes, trace>>
             ELSE /\ queryResult' = closer(pass.q, ev, pass.out)
                  /\ closes' = closes + closesOf(pass.out)
                  /\ qpc' = CASE pass.out = "true" -> "idle"
                              [] pass.out = "false" -> "done"
                              [] OTHER -> "panic"
                  /\ trace' = Append(trace, observed(queryResult', pass.out, closes'))
  /\ UNCHANGED callStart
  /\ UNCHANGED <<now, prodVars, bufVars, wpc, svcVars, callVars, racyLens, pushLog,
                 blkVars, tvVars, ptVars, optVars, conVars, ctxVars,
                 encVars>>

NextQuery ==
  \/ CallNext
  \/ ReadRow

SpecQuery == Init /\ [][NextQuery]_vars

\* ---- toValue alone: any cell under any data type -----------------------------------
ChooseCell ==
  /\ \E s \in Cells, t \in DataTypes : tvIn' = [s |-> s, t |-> t]
  /\ tvOut' = NoResult
  /\ UNCHANGED <<now, prodVars, bufVars, wpc, svcVars, callVars, racyLens, pushLog,
                 blkVars, csvVars, ptVars, optVars, conVars, ctxVars,
                 encVars>>

CallToValue ==
  /\ ~tvOut.called
  /\ tvOut' = [called |-> TRUE, val |-> toValue(tvIn.s, tvIn.t).val,
               err |-> toValue(tvIn.s, tvIn.t).err]
  /\ UNCHANGED tvIn
  /\ UNCHANGED <<now, prodVars, bufVars, wpc, svcVars, callVars, racyLens, pushLog,
                 blkVars, csvVars, ptVars, optVars, conVars, ctxVars,
                 encVars>>

NextToValue ==
  \/ ChooseCell
  \/ CallToValue

SpecToValue == Init /\ [][NextToValue]_vars

\* ---- the blocking API called by two threads on one writeApiBlockingImpl -----------
\* one pass of handleWrite's loop for the parameter b, the locals btw
\* (batchToWrite) and r (retrying), on queue q at time t: the values after the
\* two ifs on the retry queue
handleWritePass(q, last, t, b, btw, r) ==
  LET enter == ~isEmpty(q)
      ok == canWrite(last, first(q).retryInterval, t)
      declined == enter /\ ~r /\ ~ok
      r1 == IF enter /\ ~r THEN ok ELSE r
      q1 == IF declined THEN push(q, b) ELSE q
      btw1 == IF declined THEN NoBatch ELSE btw
      doRetry == enter /\ r1
      btw2 == IF doRetry THEN [first(q1) EXCEPT !.retries = @ + 1] ELSE btw1
      q2 == IF doRetry THEN popped(q1) ELSE q1
      q3 == IF doRetry /\ ~b.isNil THEN push(q2, b) ELSE q2
  IN  [retrying |-> r1, queue |-> q3, batchToWrite |-> btw2,
       batch |-> IF doRetry THEN NoBatch ELSE b]

\* the second thread calls WriteRecord(ctx, line): write enters handleWrite
OtherWriteRecord ==
  /\ other.pc = "idle"
  /\ nCalls < MaxCalls
  /\ \E l \in Lines :
       other' = [pc |-> "loop", batch |-> blockingBatch(recordPayload(<<l>>)),
                 batchToWrite |-> blockingBatch(recordPayload(<<l>>)),
                 retrying |-> FALSE, err |-> NilError]
  /\ nCalls' = nCalls + 1
  /\ UNCHANGED <<now, prodVars, bufVars, wpc, svcVars, callVars, racyLens, pushLog,
                 bcall, bArgs, bResult, bSinkAtCall, csvVars, tvVars, ptVars, optVars, ctxVars,
                 encVars>>

\* one pass of the second thread's loop, up to the request or to return nil
OtherHandleWriteLoop ==
  /\ other.pc = "loop"
  /\ LET pass == handleWritePass(retryQueue, lastWriteAttempt, now, other.batch,
                                 other.batchToWrite, other.retrying)
     IN  /\ retryQueue' = pass.queue
         /\ IF ~pass.batchToWrite.isNil
            THEN /\ other' = [other EXCEPT !.pc = "post", !.batch = pass.batch,
                                           !.retrying = pass.retrying,
                                           !.batchToWrite =
                                              [pass.batchToWrite EXCEPT !.attempts = @ + 1]]
                 /\ lastWriteAttempt' = now
                 /\ posts' = Append(posts, Len(pass.batchToWrite.lines))
            ELSE /\ other' = [other EXCEPT !.pc = "return", !.batch = pass.batch,
                                           !.retrying = pass.retrying,
                                           !.batchToWrite = NoBatch, !.err = NilError]
                 /\ UNCHANGED <<lastWriteAttempt, posts>>
  /\ UNCHANGED <<now, prodVars, bufVars, wpc, batch, batchToWrite, retrying, hwErr,
                 lastStatus, sink, nFailed, hwPlan, hwSent, callVars, racyLens,
                 pushLog, blkVars, csvVars, tvVars, ptVars, optVars, ctxVars,
                 encVars>>

\* the answer to the second thread's request
OtherHttpResponse ==
  /\ other.pc = "post"
  /\ \E st \in Statuses, ra \in RetryAfterVals, body \in ErrorBodies :
       /\ st \notin {StatusTooManyRequests, StatusServiceUnavailable} => ra = 0
       /\ st \in {StatusOK, StatusNone} => body = "text"
       /\ IF st = StatusOK
          THEN /\ lastWriteAttempt' = now
               /\ sink' = sink \o other.batchToWrite.lines
               /\ other' = [other EXCEPT !.pc = "loop", !.batchToWrite = NoBatch]
               /\ UNCHANGED <<retryQueue, nFailed>>
          ELSE /\ nFailed < MaxFailures
               /\ nFailed' = nFailed + 1
               /\ retryQueue' = queueAfterError(retryQueue, other.batchToWrite, st, ra,
                                                lastWriteAttempt)
               /\ other' = [other EXCEPT !.pc = "return", !.batchToWrite = NoBatch,
                                         !.err = postRequestError(st, ra, body)]
               /\ UNCHANGED <<lastWriteAttempt, sink>>
  /\ UNCHANGED <<now, prodVars, bufVars, wpc, batch, batchToWrite, retrying, hwErr,
                 lastStatus, posts, hwPlan, hwSent, callVars, racyLens, pushLog,
                 blkVars, csvVars, tvVars, ptVars, optVars, ctxVars,
                 encVars>>

\* the second thread's handleWrite returns
OtherReturn ==
  /\ other.pc = "return"
  /\ other' = NoOther
  /\ UNCHANGED <<now, prodVars, bufVars, wpc, svcVars, callVars, racyLens, pushLog,
                 blkVars, csvVars, tvVars, ptVars, optVars, ctxVars,
                 encVars>>

NextConcurrent ==
  \/ Tick
  \/ BlockingWriteRecord
  \/ HandleWriteCancelled
  \/ HandleWriteLoop
  \/ HttpResponse
  \/ BlockingReturn
  \/ OtherWriteRecord
  \/ OtherHandleWriteLoop
  \/ OtherHttpResponse
  \/ OtherReturn

SpecConcurrent == InitBlocking /\ [][NextConcurrent]_vars

\* ---- the pipeline under several configurations -----------------------------------
\* the Options tried: the default ones, a retry buffer of one batch, and a retry
\* buffer smaller than a batch
OptionChoices ==
  {DefaultOptions,
   [BatchSize |-> BatchSize, RetryBufferLimit |-> BatchSize],
   [BatchSize |-> BatchSize, RetryBufferLimit |-> BatchSize - 1]}

InitOptions == \E o \in OptionChoices : InitWith(o)

SpecOptions == InitOptions /\ [][Next]_vars

\* ---- Point: any sequence of calls on one point ---------------------------------------
PointUnchanged ==
  UNCHANGED <<now, prodVars, bufVars, wpc, svcVars, callVars, racyLens, pushLog,
              blkVars, csvVars, tvVars, optVars, conVars, ctxVars,
                 encVars>>

\* NewPoint(measurement, tags, fields, ts): the point of the run is made by
\* NewPoint instead of NewPointWithMeasurement
PointNewPoint ==
  /\ pcall.op = "none"
  /\ \E tags \in MapsOf(TagKeys, TagValues), fields \in MapsOf(FieldKeys, FieldValues),
        ts \in Times :
       IF \E k \in DOMAIN fields : Unsupported(fields[k])
       THEN /\ pcall' = [NoCall EXCEPT !.op = "NewPoint", !.panicked = TRUE]
            /\ UNCHANGED point
       ELSE /\ \E te \in EntriesOf(tags), fe \in EntriesOf(fields) :
                 \E st \in SortedByKey(te),
                    sf \in SortedByKey([i \in 1..Len(fe) |->
                                          [fe[i] EXCEPT !.Value = convertField(fe[i].Value)]]) :
                   point' = [measurement |-> Measurement, tags |-> st, fields |-> sf,
                             timestamp |-> ts]
            /\ pcall' = [NoCall EXCEPT !.op = "NewPoint"]
  /\ PointUnchanged

\* m.AddTag(k, v)
PointAddTag ==
  /\ ~pcall.panicked
  /\ \E k \in TagKeys, v \in TagValues :
       /\ point' = [point EXCEPT !.tags = AddTag(point.tags, k, v)]
       /\ pcall' = [NoCall EXCEPT !.op = "AddTag", !.k = k,
                                  !.v = Value("string", 0, v)]
  /\ PointUnchanged

\* m.AddField(k, v)
PointAddField ==
  /\ ~pcall.panicked
  /\ \E k \in FieldKeys, v \in FieldValues :
       IF Unsupported(v) /\ ~\E i \in 1..Len(point.fields) : point.fields[i].Key = k
       THEN /\ pcall' = [NoCall EXCEPT !.op = "AddField", !.k = k, !.v = v,
                                       !.panicked = TRUE]
            /\ UNCHANGED point
       ELSE /\ point' = [point EXCEPT !.fields = AddField(point.fields, k, v)]
            /\ pcall' = [NoCall EXCEPT !.op = "AddField", !.k = k, !.v = v]
  /\ PointUnchanged

\* m.SetTime(timestamp)
PointSetTime ==
  /\ ~pcall.panicked
  /\ \E ts \in Times : point' = [point EXCEPT !.timestamp = ts]
  /\ pcall' = [NoCall EXCEPT !.op = "SetTime"]
  /\ PointUnchanged

\* m.SortTags()
PointSortTags ==
  /\ ~pcall.panicked
  /\ \E st \in SortedByKey(point.tags) : point' = [point EXCEPT !.tags = st]
  /\ pcall' = [NoCall EXCEPT !.op = "SortTags"]
  /\ PointUnchanged

\* m.SortFields()
PointSortFields ==
  /\ ~pcall.panicked
  /\ \E sf \in SortedByKey(point.fields) : point' = [point EXCEPT !.fields = sf]
  /\ pcall' = [NoCall EXCEPT !.op = "SortFields"]
  /\ PointUnchanged

\* m.ToLineProtocol(precision)
PointToLineProtocol ==
  /\ ~pcall.panicked
  /\ \E precision \in Precisions :
       pcall' = [NoCall EXCEPT !.op = "ToLineProtocol", !.precision = precision,
                               !.line = ToLineProtocol(point, precision)]
  /\ UNCHANGED point
  /\ PointUnchanged

NextPoint ==
  \/ PointNewPoint
  \/ PointAddTag
  \/ PointAddField
  \/ PointSetTime
  \/ PointSortTags
  \/ PointSortFields
  \/ PointToLineProtocol

SpecPoint == Init /\ [][NextPoint]_vars

\* ---- helpers of the properties ---------------------------------------------------

IsPrefix(a, b) == Len(a) <= Len(b) /\ SubSeq(b, 1, Len(a)) = a

IsSuffix(a, b) == Len(a) <= Len(b) /\ SubSeq(b, Len(b) - Len(a) + 1, Len(b)) = a


\* the lines of one producer appear in the order it submitted them
ProducerOrdered(s) ==
  \A i, j \in 1..Len(s) : (i < j /\ s[i][1] = s[j][1]) => s[i][2] < s[j][2]

\* the lines whose WriteRecord call has returned
ReturnedLines ==
  {<<p, k>> : p \in Producers, k \in 1..MaxLines} \cap
  {l \in Producers \X (1..MaxLines) :
     l[2] <= calls[l[1]] /\ ~(sending[l[1]] /\ l[2] = calls[l[1]])}

\* the payloads held in the retry queue
QueuedLines == {retryQueue.list[i].lines : i \in 1..Len(retryQueue.list)}

C2_QueueHoldsMostRecent ==
  LET n == Len(pushLog)
      k == retryQueue.limit
      m == IF n < k THEN n ELSE k
  IN  /\ retryQueue.list = SubSeq(pushLog, n - m + 1, n)
      /\ Len(retryQueue.list) <= k

\* more batches were pushed than a queue of capacity 2 or more holds
C2_Witness ==
  /\ retryQueue.limit >= 2
  /\ Len(pushLog) > retryQueue.limit + 1
  /\ Len(retryQueue.list) = retryQueue.limit

\* ---- C3 ----------------------------------------------------------------------------
\* batches the writer holds: the parameter, the one to write, the queued ones
AllBatches ==
  {b \in {batch, batchToWrite} : ~b.isNil} \cup Range(retryQueue.list)

\* handleWrite is at the top of its loop with a fresh batch, and the head of the
\* retry queue was rejected with 429 and Retry-After n, not more than n seconds
\* before now, counted from the last write attempt
HeldBack ==
  /\ wpc = "loop"
  /\ ~retrying
  /\ ~isEmpty(retryQueue)
  /\ first(retryQueue).rejectedWith = StatusTooManyRequests
  /\ first(retryQueue).retryAfter > 0
  /\ now <= lastWriteAttempt + first(retryQueue).retryAfter

C4_RetryAfterHonoured ==
  (wpc = "post" /\ batchToWrite.retryAfter > 0) =>
    lastWriteAttempt >= batchToWrite.rejectedAt + batchToWrite.retryAfter

\* ---- C5 ----------------------------------------------------------------------------
\* C5: no batch is dispatched more than MaxRetries + 1 times, a batch was
\* dispatched at most once more than it was taken from the retry queue, and a
\* batch answered 429/503 whose retries counter has reached MaxRetries is not in
\* the retry queue afterwards.
C5_MaxRetriesBoundsDispatches ==
  /\ [](\A b \in AllBatches :
          /\ b.attempts <= MaxRetries + 1
          /\ b.attempts <= b.retries + 1)
  /\ [][(/\ wpc = "post"
         /\ wpc' = "return"
         /\ lastStatus' \in {StatusTooManyRequests, StatusServiceUnavailable}
         /\ batchToWrite.retries >= MaxRetries) =>
          \A i \in 1..Len(retryQueue'.list) :
            retryQueue'.list[i].lines # batchToWrite.lines]_vars

\* a batch was answered 429/503 and has not been queued again
C5_Witness ==
  /\ wpc = "return"
  /\ lastStatus \in {StatusTooManyRequests, StatusServiceUnavailable}
  /\ hwSent # <<>>
  /\ hwSent[Len(hwSent)] \notin QueuedLines

\* ---- C6 ----------------------------------------------------------------------------
\* C6: when a request fails with anything but 429/503 (another status, or no
\* status at all) the retry queue is left as it was, so the failed batch is not in
\* it unless it was before, and handleWrite returns the error.
C6_OtherErrorsNotQueued ==
  [][(/\ wpc = "post"
      /\ wpc' = "return"
      /\ lastStatus' \notin {StatusOK, StatusTooManyRequests,
                             StatusServiceUnavailable}) =>
       /\ retryQueue' = retryQueue
       /\ \A i \in 1..Len(retryQueue'.list) :
            retryQueue'.list[i].lines # batchToWrite.lines
       /\ ~hwErr'.isNil
       /\ hwErr'.StatusCode = lastStatus']_vars

\* a request failed without a status while a batch was waiting in the retry queue
C6_Witness ==
  /\ wpc = "return"
  /\ lastStatus = StatusNone
  /\ ~hwErr.isNil
  /\ ~isEmpty(retryQueue)

\* ---- C7 ----------------------------------------------------------------------------
\* C7: the line of a WriteRecord call that started after close returned is never
\* received by bufferProc, so it is in no buffer, in no batch and not in the sink.
C7_NoWriteAfterClose ==
  /\ late \cap Range(accepted) = {}
  /\ late \cap Range(writeBuffer) = {}
  /\ late \cap Range(sink) = {}
  /\ \A b \in AllBatches : late \cap Range(b.lines) = {}

\* a call made after close returned is blocked in its send
C7_Witness ==
  /\ cpc = "returned"
  /\ \E p \in Producers : sending[p] /\ Line(p) \in late

\* ---- C8 ----------------------------------------------------------------------------
\* C8: close stops the buffer worker only after its Flush has returned, stops the
\* writer only after the buffer worker has signalled completion, returns only
\* after both workers have exited, and under fair scheduling, with every request
\* answered, a close that has started returns.
C8_CloseProtocolTerminates ==
  /\ []((bStop \/ bpc \in {"done", "exited"}) =>
          closing /\ cpc \notin {"idle", "flushSend", "wait", "stopSend"})
  /\ []((wpc \in {"done", "exited"} \/ cpc \in {"writeStopSend", "recvDone2"}) =>
          bpc = "exited")
  /\ [](cpc = "returned" => bpc = "exited" /\ wpc = "exited")
  /\ (closing ~> cpc = "returned")

\* close returned after a Flush that had lines to flush and a failed request
C8_Witness ==
  /\ cpc = "returned"
  /\ bpc = "exited"
  /\ wpc = "exited"
  /\ posts # <<>>
  /\ ~isEmpty(retryQueue)

\* ---- C9 ----------------------------------------------------------------------------
\* C9: the write buffer never holds more than BatchSize lines, no batch holds
\* more than BatchSize lines, and whenever the buffer holds BatchSize lines the
\* buffer worker is handing them to the writer; so n lines at the sink took at
\* least n / BatchSize requests.
C9_BatchSizeBounds ==
  /\ Len(writeBuffer) <= BatchSize
  /\ \A b \in AllBatches : Len(b.lines) <= BatchSize
  /\ \A i \in 1..Len(posts) : posts[i] <= BatchSize
  /\ Len(writeBuffer) = BatchSize => bpc = "flush"
  /\ Len(sink) <= BatchSize * Len(posts)

\* the buffer filled up and is being flushed though no tick, Flush or stop came
C9_Witness ==
  /\ bpc = "flush"
  /\ Len(writeBuffer) = BatchSize
  /\ ~trig

\* ---- C10 ---------------------------------------------------------------------------
\* C10: as long as fewer than BatchSize lines were submitted and no tick, Flush or
\* stop was handled, no request is made and no batch is handed over; the first
\* tick, Flush or stop that finds lines in the buffer makes the buffer worker
\* hand them over, and the batch handed over holds all the buffered lines.
C10_SmallBatchWaitsForTick ==
  /\ []((~trig /\ Len(accepted) < BatchSize) =>
          /\ posts = <<>>
          /\ bpc = "select"
          /\ wpc = "select"
          /\ writeBuffer = accepted)
  /\ [][(~trig /\ trig' /\ writeBuffer # <<>> /\ Len(writeBuffer) < BatchSize) =>
          /\ bpc' = "flush"
          /\ writeBuffer' = writeBuffer]_vars
  /\ [][(bpc = "flush" /\ bpc' # "flush") =>
          /\ batch'.lines = writeBuffer
          /\ writeBuffer' = <<>>]_vars

\* after a tick, Flush or stop the only request so far carried all the lines
\* submitted, fewer than BatchSize
C10_Witness ==
  /\ trig
  /\ Len(posts) = 1
  /\ posts[1] >= 1
  /\ posts[1] < BatchSize
  /\ posts[1] = Len(accepted)
  /\ sink = accepted

\* ---- the pipeline used by one goroutine ------------------------------------------
\* The goroutine that calls Flush or close is the one that submits: it calls
\* Flush only after its WriteRecord calls have returned, and submits nothing
\* while it is inside Flush.
NoneSending == \A p \in Producers : ~sending[p]

InFlush == cpc \in {"flushSend", "wait"}

NextFlush ==
  \/ Tick
  \/ \E p \in Producers : ~InFlush /\ WriteRecord(p)
  \/ \E p \in Producers : BufferRecv(p)
  \/ TickerFlush
  \/ RecvFlush
  \/ RecvStop
  \/ SendBatch
  \/ HandleWriteLoop
  \/ HttpResponse
  \/ HandleWriteReturn
  \/ RecvWriteStop
  \/ BufferDone
  \/ WriterDone
  \/ NoneSending /\ CallFlush
  \/ NoneSending /\ CallClose
  \/ waitForFlushing

SpecFlush == Init /\ [][NextFlush]_vars

\* ---- C11 ---------------------------------------------------------------------------
\* C11 as stated: when Flush (waitForFlushing) returns and the server has accepted
\* every request, every line submitted before the call is out of the write buffer
\* and has been received by the sink.
C11_FlushReturnsAfterDelivery ==
  [][(cpc = "wait" /\ cpc' # "wait" /\ nFailed = 0) =>
       /\ writeBuffer' = <<>>
       /\ Range(accepted) \subseteq Range(sink')]_vars

\* ---- C12 ---------------------------------------------------------------------------
\* the lines of args, each followed by a newline, in argument order
RECURSIVE JoinedLines(_)
JoinedLines(args) ==
  IF args = <<>> THEN <<>>
  ELSE Append(JoinedLines(SubSeq(args, 1, Len(args) - 1)),
              args[Len(args)] \o "\n")

\* C12: a blocking call is inside handleWrite exactly while it runs; the batch it
\* passes holds all its arguments in argument order, each with its newline,
\* whatever BatchSize is; every request handleWrite makes carries one whole
\* batch, so the call's payload is never split; and WriteRecord without lines
\* returns nil at once: no handleWrite, no request, the service untouched.
C12_BlockingWriteOnePayload ==
  /\ [](bcall = "running" <=> wpc \in {"loop", "post", "return"})
  /\ [](bcall = "running" =>
          /\ hwPlan # <<>>
          /\ hwPlan[Len(hwPlan)] = JoinedLines(bArgs.args)
          /\ IsPrefix(hwSent, hwPlan))
  /\ [][(nCalls' = nCalls + 1 /\ bArgs'.kind = "record" /\ bArgs'.args = <<>>) =>
          /\ bcall' = "returned"
          /\ bResult'.isNil
          /\ wpc' = wpc
          /\ posts' = posts
          /\ retryQueue' = retryQueue
          /\ lastWriteAttempt' = lastWriteAttempt]_vars

\* a WriteRecord call with more than BatchSize lines, not all the same, has its
\* payload in flight as the only request of the call
C12_Witness ==
  /\ bcall = "running"
  /\ wpc = "post"
  /\ bArgs.kind = "record"
  /\ Len(bArgs.args) > BatchSize
  /\ bArgs.args[1] # bArgs.args[2]
  /\ Len(hwPlan) = 1
  /\ hwSent = hwPlan
  /\ posts[Len(posts)] = Len(bArgs.args)

\* ---- C13 ---------------------------------------------------------------------------
\* what Error() gives for a server answer whose code and message were read
ServerErrorTexts ==
  {"invalid: data"} \cup
  {StatusText(st) \o ": data" : st \in Statuses \ {StatusOK, StatusNone}}

IsDatatypeRow(ev) ==
  ev.kind = "row" /\ Len(ev.cells) > 1 /\ ev.cells[1] = "#datatype"

\* the reads of the current (or last) call of Next
ReadsOfCall == {i \in 1..Len(consumed) : i > callStart}

\* the last call of Next has returned true
ReturnedTrue == qpc = "idle" /\ trace # <<>> /\ trace[Len(trace)].ret = "true"

DatatypeRows == {i \in 1..Len(consumed) : IsDatatypeRow(consumed[i])}

\* the last #datatype row read
LastDatatypeRow == consumed[CHOOSE i \in DatatypeRows : \A j \in DatatypeRows : j <= i]

\* C15: after a call of Next that returned true, Record().Table(),
\* TableMetadata().Position() and TablePosition() all equal the number of #datatype
\* rows read so far minus one, and TableMetadata() has exactly the columns of the
\* last #datatype row.
C15_TablesNumberedInOrder ==
  ReturnedTrue =>
    /\ ~queryResult.record.isNil
    /\ ~queryResult.table.isNil
    /\ queryResult.record.table = queryResult.table.position
    /\ queryResult.table.position = TablePosition(queryResult)
    /\ TablePosition(queryResult) = Cardinality(DatatypeRows) - 1
    /\ [j \in 1..Len(queryResult.table.columns) |-> queryResult.table.columns[j].dataType]
         = Tail(LastDatatypeRow.cells)

\* ---- C16 ---------------------------------------------------------------------------
\* the call of Next in progress has read the header row naming the column "error"
InErrorState == qpc = "reading" /\ parsingState = parsingStateError

\* the row just read, when the step read a row of more than one cell
ReadsNonBlank ==
  /\ Len(consumed') = Len(consumed) + 1
  /\ consumed'[Len(consumed')].kind = "row"
  /\ Len(consumed'[Len(consumed')].cells) > 1

\* "message,reference", or "message" when the reference is empty or absent
ErrorText(cells) ==
  IF Len(cells) > 2 /\ cells[3] # "" THEN cells[2] \o "," \o cells[3] ELSE cells[2]

\* C16: after the header row that names its first column "error", the next
\* non-blank row is never delivered as a record: Next does not return true on it,
\* and when its first cell is empty Next returns false with Err() "message,reference",
\* or "message" when the reference cell is empty or absent.
C16_ErrorRowEndsTheStream ==
  [][(InErrorState /\ ReadsNonBlank) =>
       /\ qpc' # "idle"
       /\ queryResult'.record = queryResult.record
       /\ consumed'[Len(consumed')].cells[1] = "" =>
            /\ qpc' = "done"
            /\ ~queryResult'.err.isNil
            /\ queryResult'.err.msg = ErrorText(consumed'[Len(consumed')].cells)]_vars

\* ---- C20 ---------------------------------------------------------------------------
\* the texts among Cells that read "false" when case is ignored
FalseTexts == {"false", "FALSE", "False"}

\* C20: a cell of a column declared `boolean` or `bool` converts to a boolean,
\* false for the text "false" in any case and true for anything else, without an
\* error.
C20_BooleanAndBoolCoerced ==
  (tvOut.called /\ tvIn.t \in {"boolean", "bool"}) =>
    /\ tvOut.err.isNil
    /\ tvOut.val.kind = "bool"
    /\ tvOut.val.b = (tvIn.s \notin FalseTexts)

\* ---- C17 ---------------------------------------------------------------------------
\* C17: a call of Next that returns false has called Close of the body exactly
\* once, a call that returns true has not called it; while every call so far has
\* returned true the body has never been closed.
C17_ClosedOnceOnFalse ==
  /\ \A i \in 1..Len(trace) :
       /\ trace[i].ret = "false" => trace[i].closes = 1
       /\ trace[i].ret = "true" => trace[i].closes = 0
  /\ qpc = "done" => closes = 1
  /\ qpc \in {"idle", "reading"} =>
       closes = 0 /\ \A i \in 1..Len(trace) : trace[i].closes = 0

\* a record was delivered with the body open, then a data row that does not
\* convert ended the stream and the body was closed
C17_Witness ==
  /\ qpc = "done"
  /\ Len(trace) = 2
  /\ trace[1].ret = "true" /\ ~trace[1].record.isNil /\ trace[1].closes = 0
  /\ trace[2].ret = "false" /\ ~trace[2].err.isNil /\ trace[2].closes = 1
  /\ consumed[Len(consumed)].kind = "row"

\* ---- C18 ---------------------------------------------------------------------------
\* the step reads the end of the stream
ReadsEOF ==
  /\ Len(consumed') = Len(consumed) + 1
  /\ consumed'[Len(consumed')].kind = "eof"

\* C18: in every parsing state, reading the end of the stream makes Next return
\* false with Err() nil.
C18_EOFTerminatesCleanly ==
  [][(qpc = "reading" /\ ReadsEOF) =>
       /\ qpc' = "done"
       /\ trace'[Len(trace')].ret = "false"
       /\ queryResult'.err.isNil
       /\ trace'[Len(trace')].err.isNil]_vars

\* the stream ended right after the header row naming the column "error"
C18_Witness ==
  /\ qpc = "done"
  /\ parsingState = parsingStateError
  /\ consumed[Len(consumed)].kind = "eof"
  /\ queryResult.err.isNil
  /\ trace[Len(trace)].ret = "false"

\* ---- C21 ---------------------------------------------------------------------------
\* the step reads a data row: a row of more than one cell with an empty first
\* cell, in the normal parsing state, with a table present
ReadsDataRow ==
  /\ qpc = "reading"
  /\ parsingState = parsingStateNormal
  /\ ~queryResult.table.isNil
  /\ ReadsNonBlank
  /\ consumed'[Len(consumed')].cells[1] = ""

\* the cells of the row just read, the leading one excluded
DataCells == Tail(consumed'[Len(consumed')].cells)

\* Next returns false with an error and the record is the one of before
FatalParseError ==
  /\ qpc' = "done"
  /\ trace'[Len(trace')].ret = "false"
  /\ ~queryResult'.err.isNil
  /\ queryResult'.record = queryResult.record

\* the text of the error for a row of n cells under a table of c columns
DifferentNumberText(n, c) ==
  "parsing error, row has different number of columns than table: "
  \o ToString(n) \o " vs " \o ToString(c)

\* C21 as stated: a data row whose cells, the leading blank one excluded, are not
\* len(columns) - 1 in number is a fatal parse error.
C21_Original ==
  [][(ReadsDataRow /\ Len(DataCells) # Len(queryResult.table.columns) - 1)
       => FatalParseError]_vars

\* C21: a data row whose cells, the leading blank one excluded, are not
\* len(columns) in number (the columns of the current table) is a fatal parse
\* error: Next returns false, Err() is the error of the differing numbers and no
\* record is produced; a row with len(columns) such cells never gets that error.
C21_CellCountMustMatchColumns ==
  [][ReadsDataRow =>
       IF Len(DataCells) # Len(queryResult.table.columns)
       THEN /\ FatalParseError
            /\ queryResult'.err.msg =
                 DifferentNumberText(Len(DataCells), Len(queryResult.table.columns))
       ELSE queryResult'.err.isNil \/
            queryResult'.err.msg #
              DifferentNumberText(Len(DataCells), Len(queryResult.table.columns))]_vars

\* a record of a two-column table was delivered, then a row of one cell ended
\* the stream
C21_Witness ==
  /\ qpc = "done"
  /\ Len(trace) = 2
  /\ trace[1].ret = "true" /\ ~trace[1].record.isNil
  /\ trace[2].ret = "false"
  /\ trace[2].err.msg = DifferentNumberText(1, 2)
  /\ trace[2].record = trace[1].record

\* ---- Point properties --------------------------------------------------------------
KeysOf(s) == [i \in 1..Len(s) |-> s[i].Key]

DistinctKeys(s) == \A i, j \in 1..Len(s) : i # j => s[i].Key # s[j].Key

HasKey(s, k) == \E i \in 1..Len(s) : s[i].Key = k

\* s2 is s1 with the value of the entry of key k replaced by one of values, the
\* entry at its position and every other entry as it was
ReplacedInPlace(s1, s2, k, values) ==
  /\ Len(s2) = Len(s1)
  /\ \A i \in 1..Len(s1) :
       IF s1[i].Key = k
       THEN s2[i].Key = k /\ s2[i].Value \in values
       ELSE s2[i] = s1[i]

\* s2 is s1 with one entry of key k and one of values at its end
AppendedAtEnd(s1, s2, k, values) ==
  /\ Len(s2) = Len(s1) + 1
  /\ SubSeq(s2, 1, Len(s1)) = s1
  /\ s2[Len(s2)].Key = k
  /\ s2[Len(s2)].Value \in values

\* C22: after any sequence of NewPoint, AddTag and AddField calls the point
\* holds at most one tag per tag key and one field per field key; AddTag and
\* AddField with a key the point holds replace the value of that entry where
\* it stands and leave the other entries as they were, and with a new key
\* they append the entry at the end.
C22_ReplaceByKey ==
  [][/\ DistinctKeys(point'.tags) /\ DistinctKeys(point'.fields)
     /\ (pcall'.op = "AddTag" /\ ~pcall'.panicked) =>
          /\ point'.fields = point.fields
          /\ IF HasKey(point.tags, pcall'.k)
             THEN ReplacedInPlace(point.tags, point'.tags, pcall'.k, {pcall'.v.text})
             ELSE AppendedAtEnd(point.tags, point'.tags, pcall'.k, {pcall'.v.text})
     /\ (pcall'.op = "AddField" /\ ~pcall'.panicked) =>
          /\ point'.tags = point.tags
          /\ IF HasKey(point.fields, pcall'.k)
             THEN ReplacedInPlace(point.fields, point'.fields, pcall'.k,
                                  {pcall'.v, convertField(pcall'.v)})
             ELSE AppendedAtEnd(point.fields, point'.fields, pcall'.k,
                                {pcall'.v, convertField(pcall'.v)})]_vars

\* AddTag on the first of two tags has replaced its value where it stood
C22_Witness ==
  /\ pcall.op = "AddTag"
  /\ Len(point.tags) = 2
  /\ point.tags[1].Key = pcall.k
  /\ point.tags[1].Value = pcall.v.text
  /\ point.tags[2].Value # pcall.v.text
  /\ Len(point.fields) = 2

\* the positions of the spaces of a line that separate its parts: a character
\* after a backslash is escaped, and within the fields (part 2) a space between
\* double quotes belongs to a string value
RECURSIVE Separators(_, _, _, _)
Separators(line, i, part, inQuote) ==
  IF i > Len(line) THEN <<>>
  ELSE IF line[i] = "\\" THEN Separators(line, i + 2, part, inQuote)
  ELSE IF part = 2 /\ line[i] = "\"" THEN Separators(line, i + 1, part, ~inQuote)
  ELSE IF line[i] = " " /\ ~inQuote THEN <<i>> \o Separators(line, i + 1, part + 1, FALSE)
  ELSE Separators(line, i + 1, part, inQuote)

\* where the separators of the line of point m stand
ExpectedSeparators(m) ==
  IF m.timestamp.isZero THEN <<Len(headText(m)) + 1>>
  ELSE <<Len(headText(m)) + 1, Len(headText(m)) + 1 + Len(fieldsText(m)) + 1>>

\* C23: for every point and precision the line of ToLineProtocol ends with a
\* newline, and its only unescaped spaces are the one between the tags and the
\* fields and, when a timestamp is written, the one between the fields and the
\* timestamp.
C23_OneSpaceBetweenParts ==
  pcall.op = "ToLineProtocol" =>
    /\ Len(pcall.line) > 0
    /\ pcall.line[Len(pcall.line)] = "\n"
    /\ Separators(pcall.line, 1, 1, FALSE) = ExpectedSeparators(point)

\* the number a decimal text stands for
RECURSIVE ParseDigits(_)
ParseDigits(text) ==
  IF text = <<>> THEN 0
  ELSE ParseDigits(SubSeq(text, 1, Len(text) - 1)) * 10
       + (CHOOSE d \in 0..9 : Digit10[d + 1] = text[Len(text)])

ParseInt(text) ==
  IF text # <<>> /\ Head(text) = "-" THEN 0 - ParseDigits(Tail(text)) ELSE ParseDigits(text)

\* what the line of point m holds between its fields and its newline
TimestampPart(m, line) == SubSeq(line, Len(headText(m)) + Len(fieldsText(m)) + 2, Len(line) - 1)

\* q is n / d by Go's integer division: the remainder has the sign of n
IsQuotient(q, n, d) ==
  IF n >= 0 THEN n - q * d \in 0..(d - 1) ELSE n - q * d \in (1 - d)..0

\* n is the timestamp of time t at the precision
IsTimestamp(n, t, precision) ==
  CASE precision = "Nanosecond" -> n = t.unix * Billion + t.nsec
    [] precision = "Microsecond" -> IsQuotient(n, t.unix * Billion + t.nsec, 1000)
    [] precision = "Millisecond" -> IsQuotient(n, t.unix * Billion + t.nsec, 1000000)
    [] precision = "Second" -> n = t.unix
    [] OTHER -> TRUE

\* C24: for a point of non-zero time t the line holds, after one space, t in
\* nanoseconds at precision ns, that number divided by 1000 at us and by
\* 1000000 at ms (integer division), and the Unix seconds of t at s; for a
\* point of zero time the line holds no timestamp and no space before it.
C24_TimestampScaledByPrecision ==
  pcall.op = "ToLineProtocol" =>
    LET part == TimestampPart(point, pcall.line)
    IN IF point.timestamp.isZero THEN part = <<>>
       ELSE /\ Len(part) > 1
            /\ Head(part) = " "
            /\ \A i \in 2..Len(part) : part[i] \in Range(Digit10) \cup {"-"}
            /\ IsTimestamp(ParseInt(Tail(part)), point.timestamp, pcall.precision)

\* a time before 1970 with half a second has been written in seconds
C24_Witness ==
  /\ pcall.op = "ToLineProtocol"
  /\ pcall.precision = "Second"
  /\ point.timestamp = timeUnix(0 - 2, 500000000)
  /\ TimestampPart(point, pcall.line) = <<" ", "-", "2">>
  /\ Len(point.fields) > 0

\* ---- retry buffer properties -----------------------------------------------------
\* the number of lines the batches of a list hold together
RECURSIVE LinesIn(_)
LinesIn(list) == IF list = <<>> THEN 0 ELSE Len(Head(list).lines) + LinesIn(Tail(list))

BufferWorkerStep == (\E p \in Producers : BufferRecv(p)) \/ SendBatch

\* C26: the threads of the pipeline share no mutable state: only steps of the
\* buffer worker write w.writeBuffer, and no other thread reads it, during
\* Flush and close included (racyLens holds what the caller's own read of
\* len(w.writeBuffer) may return).
C26_BufferOwnedByWorker ==
  [][/\ writeBuffer' # writeBuffer => BufferWorkerStep
     /\ racyLens' = {}]_vars

\* a thread is inside handleWrite
InHandleWrite(pc) == pc \in {"loop", "post", "return"}

\* C27: no two executions of handleWrite on one write service overlap in time,
\* so the retry queue and lastWriteAttempt are used by one thread at a time.
C27_HandleWriteNeverOverlaps == ~(InHandleWrite(wpc) /\ InHandleWrite(other.pc))

\* ---- writeBatch on 429 and 503 ----------------------------------------------------
\* writeBatch has got the answer to its request, and it is a 429 or a 503
Rejected ==
  /\ wpc = "post"
  /\ wpc' = "return"
  /\ lastStatus' \in {StatusTooManyRequests, StatusServiceUnavailable}

\* list with b at its tail; a list already at the limit loses its oldest batch
PushedAtTail(list, limit, b) ==
  (IF Len(list) = limit THEN Tail(list) ELSE list) \o <<b>>

\* C28: on a 429 or 503 answer writeBatch sets the batch's retryInterval to the
\* answer's Retry-After when that is > 0 and to the configured RetryInterval
\* otherwise; the batch goes to the tail of the retry queue (the oldest batch
\* leaving a full queue) if and only if its retries are below MaxRetries; and
\* the error is returned either way.
C28_RejectedBatchRequeued ==
  [][Rejected =>
       LET ra == hwErr'.RetryAfter
           interval == IF ra > 0 THEN ra ELSE RetryInterval
           queued == [lines |-> batchToWrite.lines, retries |-> batchToWrite.retries,
                      retryInterval |-> interval]
           Seen(list) == [i \in 1..Len(list) |->
                            [lines |-> list[i].lines, retries |-> list[i].retries,
                             retryInterval |-> list[i].retryInterval]]
       IN  /\ IF batchToWrite.retries < MaxRetries
              THEN Seen(retryQueue'.list) =
                     PushedAtTail(Seen(retryQueue.list), retryQueue.limit, queued)
              ELSE retryQueue' = retryQueue
           /\ ~hwErr'.isNil
           /\ hwErr'.StatusCode = lastStatus']_vars

\* a batch rejected with Retry-After 2 on its second attempt took the place of
\* the oldest batch of a full retry queue
C28_Witness ==
  /\ wpc = "return"
  /\ lastStatus = StatusTooManyRequests
  /\ hwErr.RetryAfter = 2
  /\ Len(retryQueue.list) = retryQueue.limit
  /\ retryQueue.list[Len(retryQueue.list)].retryInterval = 2
  /\ retryQueue.list[Len(retryQueue.list)].retries = 1
  /\ \E i \in 1..Len(hwPlan) : hwPlan[i] \notin QueuedLines \cup Range(hwSent)

\* ---- the retries counter ------------------------------------------------------------
\* the batches of the next state
AllBatchesNext ==
  {b \in {batch', batchToWrite'} : ~b.isNil} \cup Range(retryQueue'.list)

\* C29: retries counts retries only: at every HTTP attempt for a batch it
\* equals the number of earlier attempts made for that batch (0 at the first),
\* and it never decreases.
C29_RetriesCountsEarlierAttempts ==
  [][/\ wpc' = "post" => batchToWrite'.retries = batchToWrite'.attempts - 1
     /\ \A b \in AllBatches, c \in AllBatchesNext :
          b.lines = c.lines => c.retries >= b.retries]_vars

\* ---- the wait before a retry ----------------------------------------------------------
\* handleWrite makes its pass with a non-empty retry queue and retrying false
ChecksHead == wpc = "loop" /\ wpc' # "loop" /\ ~retrying /\ ~isEmpty(retryQueue)

\* no request is made in the call, which returns nil, and the fresh batch is
\* at the tail of the retry queue
HeldNoRequest ==
  /\ ~retrying'
  /\ wpc' = "return"
  /\ hwErr'.isNil
  /\ posts' = posts
  /\ hwSent' = <<>>
  /\ retryQueue'.list = PushedAtTail(retryQueue.list, retryQueue.limit, batch)

\* C30 as stated: retrying mode is entered exactly when
\* now >= lastAttempt + head.retryInterval, the instant of equality included;
\* otherwise no request is made in that call and the fresh batch goes to the
\* tail of the queue.
C30_Original ==
  [][ChecksHead =>
       IF now >= lastWriteAttempt + first(retryQueue).retryInterval
       THEN retrying' ELSE HeldNoRequest]_vars

\* C30: retrying mode is entered exactly when
\* now > lastAttempt + head.retryInterval, the instant of equality excluded;
\* otherwise no request is made in that call and the fresh batch goes to the
\* tail of the queue.
C30_RetryingAfterInterval ==
  [][ChecksHead =>
       IF now > lastWriteAttempt + first(retryQueue).retryInterval
       THEN retrying' /\ wpc' = "post" ELSE HeldNoRequest]_vars

\* a fresh batch was held back at the very instant the interval of the head ended
C30_Witness ==
  /\ wpc = "return"
  /\ hwErr.isNil
  /\ hwSent = <<>>
  /\ Len(retryQueue.list) = 2
  /\ first(retryQueue).retryInterval > 0
  /\ now = lastWriteAttempt + first(retryQueue).retryInterval
  /\ retryQueue.list[2].lines = hwPlan[Len(hwPlan)]
  /\ retryQueue.list[2].attempts = 0

\* ---- normalized field values -----------------------------------------------------------
\* what convertField makes of the type of a value it knows
NormalizedType(type) ==
  CASE type \in SignedTypes -> "int64"
    [] type \in UnsignedTypes -> "uint64"
    [] type = "float32" -> "float64"
    [] type \in {"[]byte", "time.Time", "time.Duration"} -> "string"
    [] OTHER -> type

\* C35: after any sequence of NewPoint and AddField calls every stored field
\* value has one of the types bool, int64, uint64, float64 and string, and the
\* value an AddField call stored is the passed one widened or formatted, also
\* when the key of the call was already there.
C35_FieldValuesNormalized ==
  /\ \A i \in 1..Len(point.fields) :
       point.fields[i].Value.type \in {"bool", "int64", "uint64", "float64", "string"}
  /\ (pcall.op = "AddField" /\ ~pcall.panicked) =>
       \A i \in 1..Len(point.fields) :
         point.fields[i].Key = pcall.k =>
           point.fields[i].Value.type = NormalizedType(pcall.v.type)

\* ---- a cancelled context ------------------------------------------------------------------
\* the payloads of the batches in the retry queue, in queue order
QueuedPayloads == [i \in 1..Len(retryQueue.list) |-> retryQueue.list[i].lines]

\* C33: when its context is cancelled as handleWrite is entered, the call
\* returns the cancellation error, makes no HTTP request and leaves the retry
\* queue with its batches' counters and lastWriteAttempt as they were: the
\* fresh batch is neither sent nor queued; the blocking call returns that error.
C33_CancelledContextIsANoOp ==
  /\ [][(wpc = "loop" /\ wpc' # "loop" /\ ctx = "cancelled") =>
          /\ wpc' = "return"
          /\ hwErr' = ContextCanceled
          /\ posts' = posts
          /\ sink' = sink
          /\ retryQueue' = retryQueue
          /\ lastWriteAttempt' = lastWriteAttempt]_vars
  /\ []((wpc = "return" /\ hwErr = ContextCanceled /\ hwSent = <<>>) =>
          /\ QueuedPayloads = SubSeq(hwPlan, 1, Len(hwPlan) - 1)
          /\ Len(sink) = bSinkAtCall)
  /\ [][(bcall = "running" /\ bcall' = "returned" /\ hwErr = ContextCanceled) =>
          bResult' = ContextCanceled]_vars

\* a call made with a cancelled context returned the cancellation error while
\* a batch of an earlier call was waiting in the retry queue: only the earlier
\* call made a request
C33_Witness ==
  /\ bcall = "returned"
  /\ nCalls = 2
  /\ bResult = ContextCanceled
  /\ Len(retryQueue.list) = 1
  /\ Len(posts) = 1
  /\ now > lastWriteAttempt + first(retryQueue).retryInterval

\* ---- a blocking call that finds the retry queue due ----------------------------------------
\* the first pass of handleWrite's loop, taken with a live context
FirstPass ==
  /\ wpc = "loop" /\ wpc' # "loop"
  /\ hwSent = <<>> /\ ~retrying
  /\ ctx = "live"

\* the retry interval of the queue's head has elapsed
HeadIsDue ==
  /\ ~isEmpty(retryQueue)
  /\ now > lastWriteAttempt + first(retryQueue).retryInterval

\* C31: a blocking write made when the head of a retry queue left by an
\* earlier call is due sends the queued batches in queue order and then its
\* own payload, all in this one call, and leaves the queue empty, provided
\* every request succeeds.
C31_BlockingWriteDrainsRetryQueue ==
  /\ [][(bcall = "running" /\ FirstPass /\ HeadIsDue) =>
          /\ retrying'
          /\ wpc' = "post"
          /\ hwSent' = <<hwPlan[1]>>
          /\ QueuedPayloads' = SubSeq(hwPlan, 2, Len(hwPlan))]_vars
  /\ []((bcall = "running" /\ wpc = "return" /\ retrying /\ hwErr.isNil) =>
          /\ hwSent = hwPlan
          /\ hwSent[Len(hwSent)] = JoinedLines(bArgs.args)
          /\ isEmpty(retryQueue)
          /\ SubSeq(sink, bSinkAtCall + 1, Len(sink)) = Flatten(hwPlan))

\* the second call found the batch of the first one due, sent it and then its
\* own payload, and the queue is empty
C31_Witness ==
  /\ bcall = "running" /\ wpc = "return" /\ retrying /\ hwErr.isNil
  /\ nCalls = 2
  /\ Len(hwSent) = 2
  /\ hwSent[1] # hwSent[2]
  /\ isEmpty(retryQueue)

\* ---- what a nil result of a blocking call says ---------------------------------------------
\* the payload of the running call got a 2xx answer in this call
PayloadDelivered ==
  /\ hwSent # <<>>
  /\ hwSent = hwPlan
  /\ SubSeq(sink, Len(sink) - Len(JoinedLines(bArgs.args)) + 1, Len(sink))
       = JoinedLines(bArgs.args)
  /\ Len(sink) - bSinkAtCall >= Len(JoinedLines(bArgs.args))

\* C32: a blocking call with a payload returns nil only if the payload got a
\* 2xx answer during the call; a payload that was queued or evicted instead
\* makes the call return an error.
C32_NilMeansDelivered ==
  (bcall = "running" /\ wpc = "return" /\ hwErr.isNil) => PayloadDelivered

\* ---- the end of a handleWrite call ---------------------------------------------------------
\* the writer goroutine is scheduled while it can take a batch, run a pass of
\* the loop or return from handleWrite, and every request gets its answer
SpecWriterFair ==
  /\ Spec
  /\ WF_vars(SendBatch)
  /\ WF_vars(HandleWriteLoop)
  /\ WF_vars(HttpResponse)
  /\ WF_vars(HandleWriteReturn)

\* handleWrite is running
HandleWriteRuns == wpc \in {"loop", "post"}

\* C37: every handleWrite call returns: it makes at most one request per batch
\* that was queued at its entry and one for the fresh batch, makes none after
\* a request has failed, and after requests that all succeeded it returns with
\* nothing left to write.
C37_HandleWriteTerminates ==
  /\ [](Len(hwSent) <= Len(hwPlan) /\ IsPrefix(hwSent, hwPlan))
  /\ [][(wpc = "post" /\ wpc' # "post" /\ lastStatus' # StatusOK) =>
          (wpc' = "return" /\ ~hwErr'.isNil)]_vars
  /\ [][wpc = "return" => (posts' = posts /\ hwSent' \in {hwSent, <<>>})]_vars
  /\ []((wpc = "return" /\ hwErr.isNil /\ hwSent # <<>>) =>
          (hwSent = hwPlan /\ isEmpty(retryQueue) /\ batchToWrite.isNil))
  /\ HandleWriteRuns ~> (wpc = "return")

\* a call that found two batches queued made three requests and returned nil
C37_Witness ==
  /\ wpc = "return"
  /\ hwErr.isNil
  /\ Len(hwSent) = 3
  /\ Len(posts) >= 4

\* ---- the writer after a failed write -------------------------------------------------------
\* C34: the writer does not wait on the report of an error: after handleWrite
\* has failed for a batch the writer's next step is ready at once and takes it
\* back to its select, it takes the next batch the buffer worker has for it,
\* and so the buffer worker is not held.
C34_WriterNotBlockedByError ==
  /\ [][(wpc = "return" /\ ~hwErr.isNil /\ wpc' # wpc) => wpc' = "select"]_vars
  /\ []((wpc = "return" /\ ~hwErr.isNil) => ENABLED HandleWriteReturn)
  /\ (bpc = "flush" /\ nFailed > 0) ~> (bpc # "flush" /\ wpc = "loop")

\* every request so far has failed, the last one for good, and the writer has
\* taken the next batch
C34_Witness ==
  /\ wpc = "loop"
  /\ hwSent = <<>>
  /\ posts # <<>>
  /\ sink = <<>>
  /\ nFailed = Len(posts)
  /\ isEmpty(retryQueue)

\* ---- Write(point) of the asynchronous API ---------------------------------------------------
\* Write(point): the point is encoded; with an encoding error the call logs
\* it and returns, otherwise  w.bufferCh <- buffer.String()  and the call stays
\* blocked in the send until bufferProc receives.
Write(p) ==
  /\ ~sending[p]
  /\ TotalCalls < MaxLines
  /\ calls' = [calls EXCEPT ![p] = @ + 1]
  /\ late' = IF cpc = "returned" THEN late \cup {<<p, calls[p] + 1>>} ELSE late
  /\ \E pt \in Points :
       IF encodeFails(<<pt>>)
       THEN /\ unsent' = unsent \cup {<<p, calls[p] + 1>>}
            /\ sending' = sending
       ELSE /\ unsent' = unsent
            /\ sending' = [sending EXCEPT ![p] = TRUE]
  /\ UNCHANGED <<now, bufVars, wpc, svcVars, callVars, racyLens, pushLog, blkVars,
                 csvVars, tvVars, ptVars, optVars, conVars, ctxVars>>

\* the pipeline with producers that call WriteRecord and Write
NextWrite == Next \/ \E p \in Producers : Write(p)

SpecWrite == Init /\ [][NextWrite]_vars

\* ---- a write after close --------------------------------------------------------------------
\* the calls that started after close had returned and are blocked in their send
StillBlocked(l) == sending[l[1]] /\ Line(l[1]) = l

\* C40 as stated: a WriteRecord or Write call that starts after close has
\* returned never returns.
C40_Original == \A l \in late : StillBlocked(l)

\* C40: a WriteRecord call, or a Write call whose point encodes, that starts
\* after close has returned never returns: it stays blocked in its send on the
\* record channel, whose only receiver, the buffer worker, has exited.
C40_LateCallNeverReturns ==
  /\ \A l \in late \ unsent : StillBlocked(l)
  /\ cpc = "returned" => (bpc = "exited" /\ \A p \in Producers : ~ENABLED BufferRecv(p))

\* after close returned one producer called Write with a point that does not
\* encode and is back, the other called and is blocked
C40_Witness ==
  /\ cpc = "returned"
  /\ Cardinality(late) = 2
  /\ Cardinality(late \cap unsent) = 1
  /\ \E p \in Producers : sending[p] /\ Line(p) \in late

\* ---- triggers that find the buffer empty ----------------------------------------------------
\* C38: the pipeline emits no empty batch: the buffer worker offers a batch to
\* the writer only with lines in its buffer, so a tick, a Flush signal or the
\* stop signal that finds the buffer empty sends nothing, and no batch in the
\* writer, in the retry queue or in a request is empty.
C38_NoEmptyBatch ==
  /\ [](bpc = "flush" => Len(writeBuffer) > 0)
  /\ [][(bpc = "select" /\ bpc' # "select" /\ writeBuffer' = <<>>) =>
          (bpc' = "done" /\ posts' = posts /\ wpc' = wpc)]_vars
  /\ [](\A b \in AllBatches : Len(b.lines) > 0)
  /\ [](\A i \in 1..Len(posts) : posts[i] > 0)

\* the stop signal found the buffer empty: no line was ever accepted, nothing
\* was sent, and the buffer worker is about to exit
C38_Witness ==
  /\ bStop
  /\ trig
  /\ bpc = "done"
  /\ accepted = <<>>
  /\ posts = <<>>
  /\ wpc = "select"

\* ---- batches left in the retry queue --------------------------------------------------------
\* the writer is not inside handleWrite
WriterIdle == wpc \in {"select", "done", "exited"}

\* the lines held in the retry queue
LinesWaiting == UNION {Range(b.lines) : b \in Range(retryQueue.list)}

\* C36: a queued batch is sent again only inside a handleWrite call that a new
\* batch from the buffer worker has started: while no batch reaches the writer
\* the queue, the requests and the sink stay as they are whatever the clock
\* says, and close leaves the queued batches queued and undelivered.
C36_RetryOnlyWithNewBatch ==
  /\ [][(~HandleWriteRuns /\ wpc' \in {"loop", "post"}) =>
          /\ bpc = "flush"
          /\ wpc' = "loop"
          /\ ~batch'.isNil
          /\ batch'.lines = writeBuffer
          /\ batch'.attempts = 0
          /\ posts' = posts]_vars
  /\ [][posts' # posts => (wpc = "loop" /\ hwPlan # <<>>)]_vars
  /\ [][(WriterIdle /\ wpc' \in {"select", "done", "exited"}) =>
          (retryQueue' = retryQueue /\ posts' = posts /\ sink' = sink)]_vars
  /\ [](LinesWaiting \cap Range(sink) = {})
  /\ [][cpc = "returned" =>
          (retryQueue' = retryQueue /\ posts' = posts /\ sink' = sink)]_vars

\* close has returned with a batch in the retry queue whose interval has
\* long passed
C36_Witness ==
  /\ cpc = "returned"
  /\ ~isEmpty(retryQueue)
  /\ now > lastWriteAttempt + first(retryQueue).retryInterval + 1

\* ---- rows that come before any #datatype row -----------------------------------------------
\* C39: Next returns true or false for every sequence of rows and never
\* faults: no annotation or header row is applied to table metadata that no
\* #datatype row has created.
C39_NextNeverFaults == qpc # "panic"
====
